---- MODULE Spec2Model ----
(***************************************************************************)
(* MarkNET backend: the native bridge (one process-wide network pointer),  *)
(* the NeuralNetworkWrapper singleton, the Express route handlers that     *)
(* call it, and the prediction rate limiter.                               *)
(*                                                                         *)
(* The Node.js event loop runs one handler at a time; a handler is cut     *)
(* into steps at the native calls it makes, and keeps the loop until it    *)
(* has sent its response (Yields).                                         *)
(***************************************************************************)
EXTENDS Integers, Sequences, FiniteSets, TLC

\* ------------------------------------------------------------------ bounds
MaxSlots == 2          \* requests (or wrapper calls) in flight at once
MaxNets == 2           \* heap cells the allocator can hand out for a network
MaxExcess == 2         \* requests issued beyond a rate limit before the window ends
MaxFail == 1           \* which native predict call of a handler the N-API layer fails, at most

\* ------------------------------------------------------- program constants
ImagePixels == 784     \* 28x28
OutputClasses == 10
MaxBatchSize == 10
PredictionMax == 60    \* predictionLimiter.max
GeneralMax == 500      \* limiter.max

Slots == 1..MaxSlots
NetIds == 1..MaxNets

DefaultModel == "mnist_model.bin"
Files == {"mnist_model.bin", "mnist_model_300.bin", "broken.bin", "missing.bin"}

VARIABLES
    phase,          \* "boot" | "serving" | "exited" | "lib" (wrapper driven directly)
    disk,           \* file name -> "good" | "bad" | "absent"
    nn,             \* static NeuralNetwork* nn; 0 is NULL
    live,           \* allocated, not yet freed, networks
    netFile,        \* what each heap cell holds
    isInitialized,  \* NeuralNetworkWrapper.isInitialized
    initOk,         \* history: the last init() returned success and no cleanup() ran since
    running,        \* the slot whose handler holds the event loop; 0 when the loop is free
    req,            \* slot -> the request being handled there
    done,           \* the request that finished last, with its response
    exitCode,       \* process.exit code; -1 while the process runs
    gHits,          \* general limiter: hits of the client in the current window
    pHits,          \* prediction limiter: hits of the client in the current window
    pIssued,        \* prediction-route requests the client issued in that window
    pRejected,      \* how many of them were answered 429
    gEnded,         \* the general window ended during the current prediction window
    rlLast,         \* outcome of the client's last request
    pre,            \* the last run of the image preprocessing: route, options, image, stages, result
    sl,            \* a network, the file it was saved to, the network loaded from that file
    ds,            \* a dataset being shuffled: the rows it held, its two pointer arrays, the loop index
    ct,            \* a network_test pass: the confusion matrix, the samples done, what was returned
    mn,            \* a dataset_load_mnist call: the files given, the headers read, what was returned
    ui,            \* the browser client: currentModel, the selector, switch requests in flight, the confidence bars
    nat,            \* the native module called directly: what the last call did to the network objects
    tr,            \* a trainer's epoch loop: best_val_loss, patience_counter, the checkpoint file
    cv,            \* the browser client's canvas: the drawing flag, the debounce timer, prediction requests in flight, the confidence bars
    bk              \* network_train on one sample: the forward pass, then network_backward layer by layer

serverVars == <<phase, disk, nn, live, netFile, isInitialized, initOk, running, req, done, exitCode>>
rateVars == <<gHits, pHits, pIssued, pRejected, gEnded, rlLast>>
otherVars == <<pre, sl, ds, ct, mn, ui, nat, tr, cv, bk>>
vars == <<phase, disk, nn, live, netFile, isInitialized, initOk, running, req, done,
          exitCode, gHits, pHits, pIssued, pRejected, gEnded, rlLast, pre, sl, ds, ct, mn, ui, nat, tr, cv, bk>>

\* ------------------------------------------------------------ request data
NoName == [tag |-> "absent", val |-> ""]
NameInputs ==
    {NoName, [tag |-> "string", val |-> ""], [tag |-> "number", val |-> "7"]}
    \cup {[tag |-> "string", val |-> f] : f \in Files}

NoImage == [isArray |-> FALSE, len |-> 0, badAt |-> 0]
GoodImage == [isArray |-> TRUE, len |-> ImagePixels, badAt |-> 0]
\* badAt: index of the first element that is not a number or is NaN; 0 when none
ImageInputs ==
    {NoImage, GoodImage,
     [isArray |-> TRUE, len |-> ImagePixels - 1, badAt |-> 0],
     [isArray |-> TRUE, len |-> ImagePixels + 1, badAt |-> 0],
     [isArray |-> TRUE, len |-> ImagePixels, badAt |-> 1],
     [isArray |-> TRUE, len |-> ImagePixels, badAt |-> ImagePixels],
     [isArray |-> TRUE, len |-> 0, badAt |-> 0]}
BadImage == [isArray |-> TRUE, len |-> ImagePixels - 1, badAt |-> 0]

OptionInputs == {"absent", "object", "null"}

NoRet == [tag |-> "none", err |-> "", ok |-> FALSE, len |-> 0, loaded |-> FALSE, numLayers |-> 0]

IdleReq ==
    [kind |-> "none", pc |-> "idle",
     modelName |-> NoName, pixels |-> NoImage, options |-> "absent",
     images |-> <<>>, imagesIsArray |-> FALSE, failAt |-> 0,
     i |-> 0, arg |-> NoImage, path |-> "", ret |-> NoRet, info |-> NoRet,
     reached |-> FALSE, okAtCall |-> FALSE, nPredict |-> 0, calls |-> <<>>,
     nnBefore |-> 0, initBefore |-> FALSE, nnAfter |-> 0, initAfter |-> FALSE,
     fwdNet |-> 0, fwdFile |-> "", fwdLive |-> FALSE,
     outNet |-> 0, outFile |-> "", outLive |-> FALSE,
     status |-> 0, sent |-> 0, health |-> "", modelStatus |-> "", predStatus |-> "",
     numLayers |-> 0, sig |-> "", currentModel |-> "",
     results |-> <<>>, total |-> 0, successful |-> 0, failed |-> 0]

\* what the middleware chain did with a request: nth counts the client's
\* prediction-route requests of the window, counted is the prediction limiter's hit count
NoRequest == [route |-> "none", status |-> 0, handled |-> FALSE, nth |-> 0, counted |-> 0]

NoPreprocessing == [route |-> "none", options |-> <<>>, image |-> {}, stages |-> <<>>, out |-> {}]

NullNetwork == [null |-> TRUE, layer_sizes |-> <<>>, learning_rate |-> 0, layers |-> <<>>]
NoSaveLoad ==
    [pc |-> "start", net |-> NullNetwork, exists |-> FALSE, file |-> <<>>,
     savedBy |-> "", saveRet |-> "", loadedBy |-> "", loaded |-> NullNetwork,
     input |-> <<>>, outNet |-> <<>>, outLoaded |-> <<>>]

NoShuffle == [pc |-> "start", rows |-> <<>>, inputs |-> <<>>, targets |-> <<>>, i |-> 0]

NoTest ==
    [pc |-> "start", supplied |-> FALSE, prior |-> <<>>, matrix |-> <<>>, n |-> 0, i |-> 0,
     ret |-> "", accuracy |-> [num |-> 0, den |-> 1]]

NoDatasets == [made |-> FALSE, train |-> 0, val |-> 0, test |-> 0]
NoMnist ==
    [pc |-> "start", trainImages |-> <<>>, testImages |-> <<>>, train_magic |-> 0, num_train |-> 0,
     test_magic |-> 0, num_test |-> 0, ret |-> "", out |-> NoDatasets]

NoClient ==
    [pc |-> "start", version |-> "", currentModel |-> "", selector |-> "", pending |-> <<>>,
     bars |-> <<>>, good |-> "", switched |-> FALSE,
     last |-> [ev |-> "none", model |-> "", outcome |-> "", before |-> ""]]

NoNative ==
    [pc |-> "run", doubleFree |-> FALSE, readFreed |-> FALSE,
     last |-> [call |-> "none", version |-> "", file |-> "", ok |-> FALSE, prev |-> 0]]

NoCheckpoint == [epoch |-> 0, loss |-> 0]
NoTraining ==
    [pc |-> "start", trainer |-> "", epoch |-> 0, best_val_loss |-> 0, patience_counter |-> 0,
     checkpoint |-> NoCheckpoint, stopped |-> "", val_loss |-> 0, improved |-> FALSE,
     lastImproved |-> 0, lowest |-> NoCheckpoint, saveOk |-> TRUE]

NoCanvas ==
    [pc |-> "start", version |-> "", isDrawing |-> FALSE, hasContent |-> FALSE, now |-> 0,
     timers |-> {}, predictionTimeout |-> 0, nextId |-> 1, inflight |-> 0,
     bars |-> <<>>, cleared |-> FALSE, scheduled |-> FALSE, fired |-> 0, firedAt |-> 0,
     eventAt |-> 0, eventDelay |-> 0, events |-> 0, last |-> "none"]

NoBackward ==
    [pc |-> "start", net |-> NullNetwork, forward |-> <<>>, input |-> <<>>, target |-> <<>>,
     sums |-> <<>>, outputs |-> <<>>, deltas |-> <<>>, i |-> 0]

\* the file the process-wide reference holds, "" when it holds none
LoadedFile == IF nn # 0 /\ nn \in live THEN netFile[nn] ELSE ""

NewReq(kind) ==
    [IdleReq EXCEPT !.kind = kind, !.pc = "start",
                    !.nnBefore = nn, !.initBefore = isInitialized]

\* ------------------------------------------------------------- event loop
\* Every route handler is an async function without a single await, and the
\* wrapper's methods are synchronous: a handler gives the loop back only by
\* returning.
YieldsAroundNative(pc) == pc \in {"native_load", "output"}
YieldsBetweenItems(pc) == pc = "item"
Yields(pc) == FALSE

Step(r, rec) ==
    /\ req' = [req EXCEPT ![r] = rec]
    /\ running' = IF Yields(rec.pc) THEN 0 ELSE r
    /\ UNCHANGED done

\* the first step of a handler; the response observed before it has been delivered
Start(r, rec) ==
    /\ req' = [req EXCEPT ![r] = rec]
    /\ running' = IF Yields(rec.pc) THEN 0 ELSE r
    /\ done' = IdleReq

Finish(r, rec) ==
    /\ done' = [rec EXCEPT !.pc = "responded", !.nnAfter = nn', !.initAfter = isInitialized']
    /\ req' = [req EXCEPT ![r] = IdleReq]
    /\ running' = 0

Scheduled(r) == running \in {0, r} /\ phase # "exited"

Respond(rec, code) == [rec EXCEPT !.status = code, !.sent = @ + 1]

\* ---------------------------------------------------------- native bridge
FileLayers(f) == IF f = "mnist_model_300.bin" THEN 4 ELSE 3

\* network_free(nn) of Init: the reference is left as it is until the load assigns it
NativeInitFree(s) ==
    IF s.nn # 0
    THEN [s EXCEPT !.live = @ \ {s.nn}, !.netFile[s.nn] = "freed"]
    ELSE s

\* nn = network_load(modelPath): NULL when the file cannot be opened or built
LoadKeepsReference(s, f, id) ==
    IF disk[f] = "good"
    THEN [s EXCEPT !.nn = id, !.live = @ \cup {id}, !.netFile[id] = f]
    ELSE s
NetworkLoad(s, f, id) ==
    IF disk[f] = "good"
    THEN [s EXCEPT !.nn = id, !.live = @ \cup {id}, !.netFile[id] = f]
    ELSE [s EXCEPT !.nn = 0]

\* Cleanup: free and clear
CleanupKeepsReference(s) ==
    IF s.nn # 0
    THEN [s EXCEPT !.live = @ \ {s.nn}, !.netFile[s.nn] = "freed"]
    ELSE s
NativeCleanup(s) ==
    IF s.nn # 0
    THEN [s EXCEPT !.live = @ \ {s.nn}, !.netFile[s.nn] = "freed", !.nn = 0]
    ELSE s

\* GetModelInfo
NativeGetModelInfo(s) ==
    IF s.nn = 0
    THEN [NoRet EXCEPT !.tag = "value", !.loaded = FALSE]
    ELSE [NoRet EXCEPT !.tag = "value", !.loaded = TRUE,
                       !.numLayers = IF s.nn \in s.live THEN FileLayers(s.netFile[s.nn]) ELSE 0]

Native == [nn |-> nn, live |-> live, netFile |-> netFile]

SetNative(s) ==
    /\ nn' = s.nn
    /\ live' = s.live
    /\ netFile' = s.netFile

\* ---------------------------------------------------------- service wrapper
\* init(): "if(this.isInitialized) this.cleanup()"
InitNeverCleansUp(flag) == FALSE
InitCleansUp(flag) == flag

\* predict(): the two guards before the native call; "" lets the call through
PredictGuardNoInitCheck(flag, input) ==
    IF ~input.isArray \/ input.len # ImagePixels THEN "InvalidInput" ELSE ""
PredictGuard(flag, input) ==
    IF ~flag THEN "NotInitialized"
    ELSE IF ~input.isArray \/ input.len # ImagePixels THEN "InvalidInput"
    ELSE ""

\* getModelInfo(): straight to the native module, whatever isInitialized says
GetModelInfoChecksInit(flag, s) ==
    IF ~flag THEN [NoRet EXCEPT !.tag = "throw", !.err = "NotInitialized"]
    ELSE NativeGetModelInfo(s)
WrapperGetModelInfo(flag, s) == NativeGetModelInfo(s)

\* init(), first half: cleanup() of the model already loaded
WrapperInitEnter(r) ==
    /\ req[r].pc = "init"
    /\ Scheduled(r)
    /\ IF InitCleansUp(isInitialized)
       THEN /\ SetNative(NativeCleanup(Native))
            /\ isInitialized' = FALSE
            /\ initOk' = FALSE
            /\ Step(r, [req[r] EXCEPT !.pc = "native_free", !.calls = Append(@, "cleanup")])
       ELSE /\ UNCHANGED <<nn, live, netFile, isInitialized, initOk>>
            /\ Step(r, [req[r] EXCEPT !.pc = "native_free"])
    /\ UNCHANGED <<phase, disk, exitCode, rateVars, otherVars>>

\* native Init, up to the load
NativeInitRelease(r) ==
    /\ req[r].pc = "native_free"
    /\ Scheduled(r)
    /\ SetNative(NativeInitFree(Native))
    /\ Step(r, [req[r] EXCEPT !.pc = "native_load", !.calls = Append(@, "init")])
    /\ UNCHANGED <<phase, disk, exitCode, isInitialized, initOk, rateVars, otherVars>>

\* native Init, the load and its boolean result; init() stores it and returns it
NativeInitLoad(r) ==
    /\ req[r].pc = "native_load"
    /\ Scheduled(r)
    /\ \E id \in NetIds \ live :
          LET s == NetworkLoad(Native, req[r].path, id)
          IN /\ SetNative(s)
             /\ isInitialized' = (s.nn # 0)
             /\ initOk' = (s.nn # 0)
             /\ Step(r, [req[r] EXCEPT !.pc = "after_init",
                                       !.ret = [NoRet EXCEPT !.tag = "value", !.ok = (s.nn # 0)]])
    /\ UNCHANGED <<phase, disk, exitCode, rateVars, otherVars>>

\* predict(), the guards
WrapperPredict(r) ==
    /\ req[r].pc = "predict"
    /\ Scheduled(r)
    /\ LET g == PredictGuard(isInitialized, req[r].arg)
           rec == [req[r] EXCEPT !.reached = FALSE, !.okAtCall = initOk,
                                 !.nPredict = @ + 1]
       IN IF g # ""
          THEN Step(r, [rec EXCEPT !.pc = "after_predict",
                                   !.ret = [NoRet EXCEPT !.tag = "throw", !.err = g]])
          ELSE Step(r, [rec EXCEPT !.pc = "forward"])
    /\ UNCHANGED <<phase, disk, exitCode, nn, live, netFile, isInitialized, initOk, rateVars, otherVars>>

\* native Predict: network_forward(nn, input)
NativeForward(r) ==
    /\ req[r].pc = "forward"
    /\ Scheduled(r)
    /\ Step(r, [req[r] EXCEPT !.pc = "output", !.reached = TRUE,
                              !.calls = Append(@, "predict"),
                              !.fwdNet = nn, !.fwdLive = (nn \in live),
                              !.fwdFile = LoadedFile])
    /\ UNCHANGED <<phase, disk, exitCode, nn, live, netFile, isInitialized, initOk, rateVars, otherVars>>

\* native Predict: predictions = nn->output_data, copied into a 10-element array;
\* a failing N-API call makes it return NULL, which JavaScript sees as undefined
NativeOutput(r) ==
    /\ req[r].pc = "output"
    /\ Scheduled(r)
    /\ LET napiOk == req[r].failAt # req[r].nPredict
       IN Step(r, [req[r] EXCEPT !.pc = "after_predict",
                                 !.outNet = nn, !.outLive = (nn \in live),
                                 !.outFile = LoadedFile,
                                 !.ret = IF napiOk
                                         THEN [NoRet EXCEPT !.tag = "value", !.len = OutputClasses]
                                         ELSE [NoRet EXCEPT !.tag = "undefined"]])
    /\ UNCHANGED <<phase, disk, exitCode, nn, live, netFile, isInitialized, initOk, rateVars, otherVars>>

\* getModelInfo()
WrapperInfo(r) ==
    /\ req[r].pc = "info"
    /\ Scheduled(r)
    /\ LET v == WrapperGetModelInfo(isInitialized, Native)
       IN Step(r, [req[r] EXCEPT !.pc = "after_info", !.info = v, !.okAtCall = initOk,
                                 !.calls = IF v.tag = "throw" THEN @ ELSE Append(@, "getModelInfo")])
    /\ UNCHANGED <<phase, disk, exitCode, nn, live, netFile, isInitialized, initOk, rateVars, otherVars>>

\* cleanup()
WrapperCleanup(r) ==
    /\ req[r].pc = "cleanup"
    /\ Scheduled(r)
    /\ IF isInitialized
       THEN /\ SetNative(NativeCleanup(Native))
            /\ isInitialized' = FALSE
            /\ Step(r, [req[r] EXCEPT !.pc = "after_cleanup", !.calls = Append(@, "cleanup")])
       ELSE /\ UNCHANGED <<nn, live, netFile, isInitialized>>
            /\ Step(r, [req[r] EXCEPT !.pc = "after_cleanup"])
    /\ initOk' = FALSE
    /\ UNCHANGED <<phase, disk, exitCode, rateVars, otherVars>>

\* ------------------------------------------------ the wrapper used directly
\* Any caller of the exported singleton: one of its four methods, any argument.
WrapperCalls ==
    {[k |-> "init", f |-> f, p |-> NoImage, fail |-> 0] : f \in Files}
    \cup {[k |-> "predict", f |-> "", p |-> p, fail |-> x] : p \in ImageInputs, x \in 0..MaxFail}
    \cup {[k |-> "info", f |-> "", p |-> NoImage, fail |-> 0],
          [k |-> "cleanup", f |-> "", p |-> NoImage, fail |-> 0]}

ClientCall(r) ==
    /\ phase = "lib"
    /\ req[r].pc = "idle"
    /\ running = 0
    /\ \E c \in WrapperCalls :
          Start(r, [NewReq("call") EXCEPT !.pc = c.k, !.path = c.f, !.arg = c.p,
                                                     !.failAt = c.fail])
    /\ UNCHANGED <<phase, disk, exitCode, nn, live, netFile, isInitialized, initOk, rateVars, otherVars>>

ClientReturn(r) ==
    /\ req[r].kind = "call"
    /\ req[r].pc \in {"after_init", "after_predict", "after_info", "after_cleanup"}
    /\ Scheduled(r)
    /\ UNCHANGED <<nn, live, netFile, isInitialized, initOk>>
    /\ Finish(r, req[r])
    /\ UNCHANGED <<phase, disk, exitCode, rateVars, otherVars>>

InitDisk ==
    {d \in [Files -> {"good", "bad", "absent"}] :
        /\ d[DefaultModel] \in {"good", "bad"}
        /\ d["mnist_model_300.bin"] = "good"
        /\ d["broken.bin"] = "bad"
        /\ d["missing.bin"] = "absent"}

InitCommon ==
    /\ disk \in InitDisk
    /\ nn = 0
    /\ live = {}
    /\ netFile = [id \in NetIds |-> "none"]
    /\ isInitialized = FALSE
    /\ initOk = FALSE
    /\ running = 0
    /\ done = IdleReq
    /\ exitCode = -1
    /\ gHits = 0
    /\ pHits = 0
    /\ pIssued = 0
    /\ pRejected = 0
    /\ gEnded = FALSE
    /\ rlLast = NoRequest
    /\ pre = NoPreprocessing
    /\ bk = NoBackward
    /\ cv = NoCanvas
    /\ tr = NoTraining
    /\ nat = NoNative
    /\ ui = NoClient
    /\ mn = NoMnist
    /\ ct = NoTest
    /\ ds = NoShuffle
    /\ sl = NoSaveLoad

InitWrapper ==
    /\ InitCommon
    /\ phase = "lib"
    /\ req = [r \in Slots |-> IdleReq]

NextWrapper ==
    \E r \in Slots :
        \/ ClientCall(r)
        \/ WrapperInitEnter(r)
        \/ NativeInitRelease(r)
        \/ NativeInitLoad(r)
        \/ WrapperPredict(r)
        \/ NativeForward(r)
        \/ NativeOutput(r)
        \/ WrapperInfo(r)
        \/ WrapperCleanup(r)
        \/ ClientReturn(r)

SpecWrapper == InitWrapper /\ [][NextWrapper]_vars

\* ------------------------------------------------------------ HTTP server
nativeVars == <<nn, live, netFile, isInitialized, initOk>>

\* a request reaches the server; its body is read when its handler runs
Arrive(r) ==
    /\ phase = "serving"
    /\ req[r].pc = "idle"
    /\ req' = [req EXCEPT ![r] = [IdleReq EXCEPT !.pc = "queued"]]
    /\ UNCHANGED <<phase, disk, nativeVars, running, done, exitCode, rateVars, otherVars>>

CanStart(r) ==
    /\ phase = "serving"
    /\ req[r].pc = "queued"
    /\ running = 0

\* ---- POST /api/model/switch
\* "if(!modelName)": undefined and the empty string are both falsy
FalsyOnlyAbsent(m) == m.tag = "absent"
Falsy(m) == m.tag = "absent" \/ (m.tag = "string" /\ m.val = "")
Exists(f) == f \in Files /\ disk[f] # "absent"

\* the checks before the load: the status to answer with, 0 to go on
SwitchValidateNoExistsCheck(m) ==
    IF Falsy(m) THEN 400
    ELSE IF m.tag # "string" THEN 500
    ELSE 0
SwitchValidate(m) ==
    IF Falsy(m) THEN 400
    ELSE IF m.tag # "string" THEN 500      \* path.join throws a TypeError: outer catch
    ELSE IF ~Exists(m.val) THEN 404
    ELSE 0

SwitchRoute(r) ==
    /\ CanStart(r)
    /\ UNCHANGED nativeVars
    /\ \E m \in NameInputs :
          LET rec == [NewReq("switch") EXCEPT !.modelName = m]
              code == SwitchValidate(m)
          IN IF code # 0
             THEN Finish(r, Respond(rec, code))
             ELSE Start(r, [rec EXCEPT !.pc = "init", !.path = m.val])
    /\ UNCHANGED <<phase, disk, exitCode, rateVars, otherVars>>

\* "if(!success) throw": the inner catch answers 500
SwitchAfterInit(r) ==
    /\ req[r].kind = "switch"
    /\ req[r].pc = "after_init"
    /\ Scheduled(r)
    /\ UNCHANGED nativeVars
    /\ IF req[r].ret.ok
       THEN Step(r, [req[r] EXCEPT !.pc = "info"])
       ELSE Finish(r, Respond(req[r], 500))
    /\ UNCHANGED <<phase, disk, exitCode, rateVars, otherVars>>

SwitchAfterInfo(r) ==
    /\ req[r].kind = "switch"
    /\ req[r].pc = "after_info"
    /\ Scheduled(r)
    /\ UNCHANGED nativeVars
    /\ IF req[r].info.tag = "value" /\ req[r].info.loaded
       THEN Finish(r, [Respond(req[r], 200) EXCEPT !.numLayers = req[r].info.numLayers])
       ELSE Finish(r, Respond(req[r], 500))
    /\ UNCHANGED <<phase, disk, exitCode, rateVars, otherVars>>

\* ---- GET /api/model/models
\* the currentModel of the answer is the literal 'mnist_model.bin'
ListedCurrentModel(loaded) == DefaultModel

\* the directory scan has its own try block, so the answer is always the 200
ModelsRoute(r) ==
    /\ CanStart(r)
    /\ UNCHANGED nativeVars
    /\ Finish(r, [Respond(NewReq("models"), 200) EXCEPT
                     !.currentModel = ListedCurrentModel(LoadedFile)])
    /\ UNCHANGED <<phase, disk, exitCode, rateVars, otherVars>>

\* ---- image input
\* validateImageInput: the list of errors
ValidateImageInput(p) ==
    IF ~p.isArray THEN <<"Input must be an array">>
    ELSE (IF p.len # ImagePixels THEN <<"Expected 784 pixels">> ELSE <<>>)
         \o (IF p.badAt # 0 THEN <<"Invalid pixel value">> ELSE <<>>)

ValidateNothing(p) == TRUE
IsValid(p) == ValidateImageInput(p) = <<>>

\* preprocessImage and the reading of the options before it: a null options
\* record cannot be read; every stage maps the array to one of the same length
PreprocessThrows(p, o) == o = "null"
PreprocessImage(p, o) == [p EXCEPT !.badAt = 0]

\* "!predictions || !Array.isArray(predictions) || predictions.length !== 10"
PredictionOk(ret) == ret.tag = "value" /\ ret.len = OutputClasses

\* ---- POST /api/predict
PredictRoute(r) ==
    /\ CanStart(r)
    /\ UNCHANGED nativeVars
    /\ \E p \in ImageInputs, o \in OptionInputs, fail \in 0..MaxFail :
          LET rec == [NewReq("predict") EXCEPT
                          !.pixels = p, !.options = o, !.failAt = fail]
          IN IF ~IsValid(p) \/ PreprocessThrows(p, o)
             THEN /\ fail = 0
                  /\ Finish(r, Respond(rec, 400))
             ELSE Start(r, [rec EXCEPT !.pc = "predict", !.arg = PreprocessImage(p, o)])
    /\ UNCHANGED <<phase, disk, exitCode, rateVars, otherVars>>

PredictAfter(r) ==
    /\ req[r].kind = "predict"
    /\ req[r].pc = "after_predict"
    /\ Scheduled(r)
    /\ UNCHANGED nativeVars
    /\ IF PredictionOk(req[r].ret)
       THEN Finish(r, Respond(req[r], 200))
       ELSE Finish(r, Respond(req[r], 500))
    /\ UNCHANGED <<phase, disk, exitCode, rateVars, otherVars>>

\* ---- GET /api/health
OverallStatus(server, model, prediction) ==
    IF server = "healthy" /\ model = "loaded" /\ prediction = "working"
    THEN "healthy" ELSE "degraded"
AlwaysOk(overall) == 200
HealthHttpStatus(overall) == IF overall = "healthy" THEN 200 ELSE 503

HealthRoute(r) ==
    /\ CanStart(r)
    /\ \E fail \in 0..MaxFail :
          Start(r, [NewReq("health") EXCEPT !.pc = "info", !.failAt = fail])
    /\ UNCHANGED <<phase, disk, nativeVars, exitCode, rateVars, otherVars>>

HealthAfterInfo(r) ==
    /\ req[r].kind = "health"
    /\ req[r].pc = "after_info"
    /\ Scheduled(r)
    /\ UNCHANGED nativeVars
    /\ LET i == req[r].info
           model == IF i.tag = "throw" THEN "error"
                    ELSE IF i.loaded THEN "loaded" ELSE "not_loaded"
           rec == [req[r] EXCEPT !.modelStatus = model]
           overall == OverallStatus("healthy", model, "skipped")
       IN IF i.tag = "value" /\ i.loaded
          THEN Step(r, [rec EXCEPT !.pc = "predict", !.arg = GoodImage])
          ELSE Finish(r, [Respond(rec, HealthHttpStatus(overall)) EXCEPT
                              !.health = overall, !.predStatus = "skipped", !.failAt = 0])
    /\ UNCHANGED <<phase, disk, exitCode, rateVars, otherVars>>

HealthAfterPredict(r) ==
    /\ req[r].kind = "health"
    /\ req[r].pc = "after_predict"
    /\ Scheduled(r)
    /\ UNCHANGED nativeVars
    /\ LET prediction == IF PredictionOk(req[r].ret) THEN "working" ELSE "failed"
           overall == OverallStatus("healthy", req[r].modelStatus, prediction)
       IN Finish(r, [Respond(req[r], HealthHttpStatus(overall)) EXCEPT
                         !.health = overall, !.predStatus = prediction])
    /\ UNCHANGED <<phase, disk, exitCode, rateVars, otherVars>>

\* ---- POST /api/predict/batch
\* the batch sizes tried: around both ends of the accepted range
BatchSizes == {0, 1, 2, 3, MaxBatchSize, MaxBatchSize + 1}

\* n images, all valid or one of them (the b-th) invalid
BatchOf(n, b) == [k \in 1..n |-> IF k = b THEN BadImage ELSE GoodImage]

\* where the invalid image sits: nowhere, first, second, last
BadPositions(n) == {b \in {0, 1, 2, n} : b <= n}

\* the options of a batch are one record for all its images; the N-API fault
\* matters only when predict() is called
BatchInputs ==
    {[isArray |-> FALSE, images |-> <<>>, failAt |-> 0, options |-> "object"]}
    \cup {[isArray |-> TRUE, images |-> BatchOf(n, 0), failAt |-> 0, options |-> "object"] :
              n \in {0, MaxBatchSize + 1}}
    \cup UNION {{[isArray |-> TRUE, images |-> BatchOf(n, b), failAt |-> x, options |-> "object"] :
                    b \in BadPositions(n), x \in 0..MaxFail} :
                 n \in BatchSizes \cap (1..MaxBatchSize)}
    \cup UNION {{[isArray |-> TRUE, images |-> BatchOf(n, b), failAt |-> 0, options |-> "null"] :
                    b \in BadPositions(n)} :
                 n \in BatchSizes \cap (1..MaxBatchSize)}

\* the checks on the images field: the status to answer with, 0 to go on
BatchCheck(isArray, n) ==
    IF ~isArray THEN 400
    ELSE IF n = 0 THEN 400
    ELSE IF n > MaxBatchSize THEN 400
    ELSE 0

Entry(i, err, f) == [index |-> i, error |-> err, file |-> f]

SuccessCount(results) == Cardinality({k \in 1..Len(results) : results[k].error = ""})

\* results.push of the loop body and of its catch; the variant loses the catch's entry
DropsFailedItem(results, e) == IF e.error = "" THEN Append(results, e) ELSE results
PushResult(results, e) == Append(results, e)

BatchRoute(r) ==
    /\ CanStart(r)
    /\ UNCHANGED nativeVars
    /\ \E b \in BatchInputs :
          LET rec == [NewReq("batch") EXCEPT
                          !.imagesIsArray = b.isArray, !.images = b.images,
                          !.failAt = b.failAt, !.options = b.options]
              code == BatchCheck(b.isArray, Len(b.images))
          IN IF code # 0
             THEN Finish(r, Respond(rec, code))
             ELSE Start(r, [rec EXCEPT !.pc = "item", !.i = 0])
    /\ UNCHANGED <<phase, disk, exitCode, rateVars, otherVars>>

\* one turn of the loop up to the predict() call, or the response after the last turn
BatchItem(r) ==
    /\ req[r].kind = "batch"
    /\ req[r].pc = "item"
    /\ Scheduled(r)
    /\ UNCHANGED nativeVars
    /\ LET i == req[r].i
           n == Len(req[r].images)
           img == req[r].images[i + 1]
       IN IF i >= n
          THEN LET ok == SuccessCount(req[r].results)
               IN Finish(r, [Respond(req[r], 200) EXCEPT
                                 !.total = n, !.successful = ok, !.failed = n - ok])
          ELSE IF ~IsValid(img)
          THEN Step(r, [req[r] EXCEPT !.i = i + 1,
                            !.results = PushResult(@, Entry(i, "Invalid input", ""))])
          ELSE IF PreprocessThrows(img, req[r].options)
          THEN Step(r, [req[r] EXCEPT !.i = i + 1,
                            !.results = PushResult(@, Entry(i, "Prediction failed", ""))])
          ELSE Step(r, [req[r] EXCEPT !.pc = "predict",
                            !.arg = PreprocessImage(img, req[r].options)])
    /\ UNCHANGED <<phase, disk, exitCode, rateVars, otherVars>>

\* the rest of the turn: predictions.reduce on what predict() returned, or the catch
BatchAfterPredict(r) ==
    /\ req[r].kind = "batch"
    /\ req[r].pc = "after_predict"
    /\ Scheduled(r)
    /\ UNCHANGED nativeVars
    /\ LET i == req[r].i
           e == IF req[r].ret.tag = "value"
                THEN Entry(i, "", req[r].fwdFile)
                ELSE Entry(i, "Prediction failed", "")
       IN Step(r, [req[r] EXCEPT !.pc = "item", !.i = i + 1,
                                 !.results = PushResult(@, e)])
    /\ UNCHANGED <<phase, disk, exitCode, rateVars, otherVars>>

\* ---- startup: the default model, or process.exit(1)
\* "if(success) ... else throw": the catch ends the process
StartupTolerant(ok) == FALSE
StartupFatal(ok) == ~ok

StartupAfterInit(r) ==
    /\ req[r].kind = "startup"
    /\ req[r].pc = "after_init"
    /\ Scheduled(r)
    /\ UNCHANGED nativeVars
    /\ IF ~StartupFatal(req[r].ret.ok)
       THEN /\ Step(r, [req[r] EXCEPT !.pc = "info"])
            /\ UNCHANGED <<phase, exitCode>>
       ELSE /\ Finish(r, req[r])
            /\ phase' = "exited"
            /\ exitCode' = 1
    /\ UNCHANGED <<disk, rateVars, otherVars>>

\* the routes are mounted and the server listens
StartupListen(r) ==
    /\ req[r].kind = "startup"
    /\ req[r].pc = "after_info"
    /\ Scheduled(r)
    /\ UNCHANGED nativeVars
    /\ Finish(r, req[r])
    /\ phase' = "serving"
    /\ UNCHANGED <<disk, exitCode, rateVars, otherVars>>

\* ---- SIGTERM, SIGINT: cleanup(), then process.exit(0); pending requests are dropped
\* both handlers call neuralNetwork.cleanup()
OnlySigtermCleans(sig) == sig = "SIGTERM"
ShutdownCleans(sig) == sig \in {"SIGTERM", "SIGINT"}

Signal(r) ==
    /\ phase = "serving"
    /\ running = 0
    /\ req[r].pc \in {"idle", "queued"}
    /\ \E sig \in {"SIGTERM", "SIGINT"} :
          Start(r, [NewReq("signal") EXCEPT
                        !.pc = IF ShutdownCleans(sig) THEN "cleanup" ELSE "after_cleanup",
                        !.sig = sig, !.calls = <<"log">>])
    /\ UNCHANGED <<phase, disk, nativeVars, exitCode, rateVars, otherVars>>

SignalExit(r) ==
    /\ req[r].kind = "signal"
    /\ req[r].pc = "after_cleanup"
    /\ Scheduled(r)
    /\ UNCHANGED nativeVars
    /\ Finish(r, req[r])
    /\ phase' = "exited"
    /\ exitCode' = 0
    /\ UNCHANGED <<disk, rateVars, otherVars>>

Init ==
    /\ InitCommon
    /\ phase = "boot"
    /\ req = [r \in Slots |->
                IF r = 1
                THEN [IdleReq EXCEPT !.kind = "startup", !.pc = "init", !.path = DefaultModel]
                ELSE IdleReq]

Next ==
    \E r \in Slots :
        \/ Arrive(r)
        \/ SwitchRoute(r)
        \/ SwitchAfterInit(r)
        \/ SwitchAfterInfo(r)
        \/ ModelsRoute(r)
        \/ PredictRoute(r)
        \/ PredictAfter(r)
        \/ HealthRoute(r)
        \/ HealthAfterInfo(r)
        \/ HealthAfterPredict(r)
        \/ StartupAfterInit(r)
        \/ StartupListen(r)
        \/ Signal(r)
        \/ SignalExit(r)
        \/ WrapperInitEnter(r)
        \/ NativeInitRelease(r)
        \/ NativeInitLoad(r)
        \/ WrapperPredict(r)
        \/ NativeForward(r)
        \/ NativeOutput(r)
        \/ WrapperInfo(r)
        \/ WrapperCleanup(r)

Spec == Init /\ [][Next]_vars

\* the server under batch prediction and model switching
NextBatch ==
    \E r \in Slots :
        \/ Arrive(r)
        \/ SwitchRoute(r)
        \/ SwitchAfterInit(r)
        \/ SwitchAfterInfo(r)
        \/ BatchRoute(r)
        \/ BatchItem(r)
        \/ BatchAfterPredict(r)
        \/ StartupAfterInit(r)
        \/ StartupListen(r)
        \/ Signal(r)
        \/ SignalExit(r)
        \/ WrapperInitEnter(r)
        \/ NativeInitRelease(r)
        \/ NativeInitLoad(r)
        \/ WrapperPredict(r)
        \/ NativeForward(r)
        \/ NativeOutput(r)
        \/ WrapperInfo(r)
        \/ WrapperCleanup(r)

SpecBatch == Init /\ [][NextBatch]_vars

\* ---------------------------------------------------------- rate limiting
\* One client (one key) against the two limiters. A limiter counts the hit,
\* then answers 429 without calling the next middleware when the count exceeds max.
\* the two prediction mounts, and one of the mounts that has no limiter of its own
Routes == {"/api/predict", "/predict", "/api/health"}

Exceeds(hits, max) == hits > max

\* app.use(path, predictionLimiter, predictRoutes)
LegacyUnlimited(route) == route = "/api/predict"
PredictionLimited(route) == route \in {"/api/predict", "/predict"}

PredictionRoutes == {"/api/predict", "/predict"}

\* app.use(limiter), then the route's own limiter, then its handler
RateRequest ==
    /\ gHits < GeneralMax + MaxExcess
    /\ \E route \in Routes :
          LET isPred == route \in PredictionRoutes
              g == gHits + 1
              counted == PredictionLimited(route) /\ ~Exceeds(g, GeneralMax)
              p == IF counted THEN pHits + 1 ELSE pHits
              rejected == Exceeds(g, GeneralMax) \/ (counted /\ Exceeds(p, PredictionMax))
          IN /\ isPred => pIssued < PredictionMax + MaxExcess
             /\ gHits' = g
             /\ pHits' = p
             /\ pIssued' = IF isPred THEN pIssued + 1 ELSE pIssued
             /\ pRejected' = IF isPred /\ rejected THEN pRejected + 1 ELSE pRejected
             /\ rlLast' = [route |-> route,
                           status |-> IF rejected THEN 429 ELSE 0,
                           handled |-> ~rejected,
                           nth |-> IF isPred THEN pIssued + 1 ELSE 0,
                           counted |-> IF counted THEN p ELSE 0]
    /\ UNCHANGED <<gEnded, serverVars, otherVars>>

\* windowMs: 1 * 60 * 1000 has passed
PredictionWindowEnds ==
    /\ pIssued > 0
    /\ pHits' = 0
    /\ pIssued' = 0
    /\ pRejected' = 0
    /\ gEnded' = FALSE
    /\ rlLast' = NoRequest
    /\ UNCHANGED <<gHits, serverVars, otherVars>>

\* windowMs: 15 * 60 * 1000 has passed; a 1-minute window meets at most one such end
GeneralWindowEnds ==
    /\ gHits > 0
    /\ ~gEnded
    /\ gHits' = 0
    /\ gEnded' = TRUE
    /\ rlLast' = NoRequest
    /\ UNCHANGED <<pHits, pIssued, pRejected, serverVars, otherVars>>

InitRate ==
    /\ InitCommon
    /\ disk[DefaultModel] = "good"
    /\ phase = "serving"
    /\ req = [r \in Slots |-> IdleReq]

NextRate ==
    \/ RateRequest
    \/ PredictionWindowEnds
    \/ GeneralWindowEnds

SpecRate == InitRate /\ [][NextRate]_vars

\* ------------------------------------------------------ image preprocessing
\* Pixel values are held in hundredths (1.0 is PixelOne); an image is the set of
\* its non-zero pixels [x, y, v] on the 28x28 grid, every other pixel being 0.
PixelOne == 100
DefaultThreshold == 10
GridSide == 28
TargetCenter == 14

\* JavaScript values of the option fields
Undefined == [t |-> "undefined", v |-> 0]
JsBool(b) == [t |-> "boolean", v |-> IF b THEN 1 ELSE 0]
JsNum(n) == [t |-> "number", v |-> n]
Truthy(x) == x.t # "undefined" /\ x.v # 0
NotFalse(x) == x # JsBool(FALSE)
\* a destructuring default: taken only for undefined
Default(x, d) == IF x = Undefined THEN d ELSE x
\* x || d
OrDefault(x, d) == IF Truthy(x) THEN x ELSE d
\* x > 0
Positive(x) == x.t # "undefined" /\ x.v > 0

OptionRecords ==
    [normalize : {Undefined, JsBool(TRUE), JsBool(FALSE), JsNum(0)},
     center : {Undefined, JsBool(TRUE), JsBool(FALSE)},
     threshold : {Undefined, JsNum(0), JsNum(5), JsNum(50), JsNum(-50)},
     applyThreshold : {Undefined, JsBool(TRUE), JsBool(FALSE)},
     applyThresh : {Undefined, JsBool(FALSE)}]

Images ==
    {{[x |-> 2, y |-> 3, v |-> 150], [x |-> 20, y |-> 22, v |-> 7], [x |-> 10, y |-> 9, v |-> 60]},
     {[x |-> 5, y |-> 5, v |-> -20], [x |-> 26, y |-> 14, v |-> 80], [x |-> 25, y |-> 1, v |-> 30]}}

\* POST /: the options handed to preprocessImage
SingleOptions(o) ==
    [normalize |-> JsBool(NotFalse(o.normalize)),
     center |-> JsBool(NotFalse(o.center)),
     threshold |-> OrDefault(o.threshold, JsNum(DefaultThreshold)),
     applyThresh |-> JsBool(NotFalse(o.applyThreshold))]

\* POST /batch: preprocessImage(images[i], options), the caller's record as it came
BatchOptions(o) ==
    [normalize |-> o.normalize, center |-> o.center, threshold |-> o.threshold,
     applyThresh |-> o.applyThresh]

Stage(name, t) == [stage |-> name, t |-> t]

\* preprocessImage: which steps run, in order
PreprocessStages(po) ==
    LET normalize == Default(po.normalize, JsBool(TRUE))
        center == Default(po.center, JsBool(TRUE))
        threshold == Default(po.threshold, JsNum(DefaultThreshold))
        applyThresh == Default(po.applyThresh, JsBool(TRUE))
    IN (IF Truthy(normalize) THEN <<Stage("normalize", 0)>> ELSE <<>>)
       \o (IF Truthy(applyThresh) /\ Positive(threshold)
           THEN <<Stage("threshold", threshold.v)>> ELSE <<>>)
       \o (IF Truthy(center) THEN <<Stage("center", 0)>> ELSE <<>>)

Min(a, b) == IF a < b THEN a ELSE b
Max(a, b) == IF a > b THEN a ELSE b

NormalizePixels(img) ==
    {q \in {[p EXCEPT !.v = Max(0, Min(PixelOne, p.v))] : p \in img} : q.v # 0}

ApplyThreshold(img, t) == {p \in img : p.v > t}

RECURSIVE WeightedSum(_, _)
WeightedSum(img, k) ==
    IF img = {} THEN 0
    ELSE LET p == CHOOSE q \in img : TRUE
             w == IF k = "x" THEN p.x * p.v ELSE IF k = "y" THEN p.y * p.v ELSE p.v
         IN w + WeightedSum(img \ {p}, k)

\* Math.round(num / den): the nearest integer, halves upwards
Round(num, den) ==
    IF den > 0 THEN (2 * num + den) \div (2 * den)
    ELSE (2 * (0 - num) + (0 - den)) \div (2 * (0 - den))

\* Math.round(targetCenter - sum / totalMass); no shift for an image without mass
CenterShift(img, k) ==
    LET totalMass == WeightedSum(img, "mass")
    IN IF totalMass = 0 THEN 0
       ELSE Round(TargetCenter * totalMass - WeightedSum(img, k), totalMass)

CenterImage(img) ==
    LET shiftX == CenterShift(img, "x")
        shiftY == CenterShift(img, "y")
    IN {q \in {[p EXCEPT !.x = p.x + shiftX, !.y = p.y + shiftY] : p \in img} :
            q.x \in 0..(GridSide - 1) /\ q.y \in 0..(GridSide - 1)}

RunStage(img, st) ==
    IF st.stage = "normalize" THEN NormalizePixels(img)
    ELSE IF st.stage = "threshold" THEN ApplyThreshold(img, st.t)
    ELSE CenterImage(img)

RECURSIVE RunStages(_, _)
RunStages(img, stages) ==
    IF stages = <<>> THEN img
    ELSE RunStages(RunStage(img, Head(stages)), Tail(stages))

\* one image of one request through one of the two routes
Preprocess ==
    /\ pre = NoPreprocessing
    /\ \E route \in {"/api/predict", "/api/predict/batch"}, o \in OptionRecords, img \in Images :
          LET po == IF route = "/api/predict" THEN SingleOptions(o) ELSE BatchOptions(o)
              stages == PreprocessStages(po)
          IN pre' = [route |-> route, options |-> o, image |-> img,
                     stages |-> stages, out |-> RunStages(img, stages)]
    /\ UNCHANGED <<serverVars, rateVars, sl, ds, ct, mn, ui, nat, tr, cv, bk>>

NextImage == Preprocess

SpecImage == InitWrapper /\ [][NextImage]_vars

\* ------------------------------------------------- model files: save, load
\* Weights, biases and the learning rate are floats written and read as raw
\* words; a file is the sequence of its 4-byte words.
MaxSeed == 2

SizeLists ==
    {<<1, 1>>, <<2, 1>>, <<1, 2>>, <<2, 2>>, <<2, 2, 1>>, <<2, 3, 2>>, <<3, 2, 2>>, <<1, 2, 3, 2>>}
LearningRates == {1, 10}

\* network_create: one layer per adjacent pair of sizes, layer_create(layer_sizes[i + 1],
\* layer_sizes[i]); neuron_create leaves random weights (held) and a zero bias
NetworkCreate(sizes, lr, held) ==
    [null |-> FALSE, layer_sizes |-> sizes, learning_rate |-> lr,
     layers |-> [i \in 1..(Len(sizes) - 1) |->
                    [j \in 1..sizes[i + 1] |->
                        [weights |-> [k \in 1..sizes[i] |-> held], bias |-> 0]]]]

\* the networks tried: a created network trained to values that differ from
\* position to position
SeedNetwork(sizes, lr, seed) ==
    LET created == NetworkCreate(sizes, lr, 0)
    IN [created EXCEPT !.layers =
           [i \in DOMAIN @ |->
               [j \in DOMAIN @[i] |->
                   [weights |-> [k \in DOMAIN @[i][j].weights |-> ((seed + 7 * i + 3 * j + k) % 5) - 2],
                    bias |-> ((seed + i + 2 * j) % 3) - 1]]]]

Networks == {SeedNetwork(sizes, lr, seed) : sizes \in SizeLists, lr \in LearningRates, seed \in 0..MaxSeed}

RECURSIVE Flatten(_)
Flatten(seqs) == IF seqs = <<>> THEN <<>> ELSE Head(seqs) \o Flatten(Tail(seqs))

\* fwrite(weights, ..., num_inputs), fwrite(&bias, ..., 1)
BiasFirst(neuron) == <<neuron.bias>> \o neuron.weights
NeuronWords(neuron) == neuron.weights \o <<neuron.bias>>

\* network_save, model_save: what is written, in order
SaveWords(net) ==
    <<Len(net.layer_sizes)>> \o net.layer_sizes \o <<net.learning_rate>>
    \o Flatten([i \in 1..Len(net.layers) |->
                   Flatten([j \in 1..Len(net.layers[i]) |-> NeuronWords(net.layers[i][j])])])

\* fread of one word: past the end of the file the destination keeps what it held
ReadWord(file, pos, held) == IF pos \in 1..Len(file) THEN file[pos] ELSE held

RECURSIVE LayerOffset(_, _)
\* words read before layer i: the header, then every neuron of the layers before it
LayerOffset(sizes, i) ==
    IF i = 1 THEN Len(sizes) + 2
    ELSE LayerOffset(sizes, i - 1) + sizes[i] * (sizes[i - 1] + 1)

\* network_load, model_load: the header, network_create, then each neuron's
\* weights and bias over the randomly initialised ones
LoadWords(file, held) ==
    LET num_layers == ReadWord(file, 1, held)
        sizes == [k \in 1..num_layers |-> ReadWord(file, 1 + k, held)]
        lr == ReadWord(file, num_layers + 2, held)
        created == NetworkCreate(sizes, lr, held)
        at(i, j) == LayerOffset(sizes, i) + (j - 1) * (sizes[i] + 1)
    IN [created EXCEPT !.layers =
           [i \in DOMAIN @ |->
               [j \in DOMAIN @[i] |->
                   [weights |-> [k \in DOMAIN @[i][j].weights |->
                                    ReadWord(file, at(i, j) + k, @[i][j].weights[k])],
                    bias |-> ReadWord(file, at(i, j) + sizes[i] + 1, @[i][j].bias)]]]]

RECURSIVE Dot(_, _)
Dot(a, b) == IF a = <<>> THEN 0 ELSE Head(a) * Head(b) + Dot(Tail(a), Tail(b))

\* neuron_forward: bias + sum of inputs[i] * weights[i], ReLU unless a softmax neuron
NeuronForward(neuron, inputs, relu) ==
    LET sum == neuron.bias + Dot(inputs, neuron.weights)
    IN IF relu THEN Max(0, sum) ELSE sum

RECURSIVE MaxOf(_)
MaxOf(seq) == IF Len(seq) = 1 THEN seq[1] ELSE Max(Head(seq), MaxOf(Tail(seq)))

\* layer_forward; the softmax layer's outputs are exp(sum - max) over their
\* total, held here by the exponents sum - max that determine them
LayerForward(layer, inputs, softmax) ==
    LET sums == [j \in 1..Len(layer) |-> NeuronForward(layer[j], inputs, ~softmax)]
    IN IF softmax THEN [j \in 1..Len(layer) |-> sums[j] - MaxOf(sums)] ELSE sums

RECURSIVE ForwardFrom(_, _, _)
ForwardFrom(net, i, inputs) ==
    IF i > Len(net.layers) THEN inputs
    ELSE ForwardFrom(net, i + 1, LayerForward(net.layers[i], inputs, i = Len(net.layers)))

\* network_forward
NetworkForward(net, input) == ForwardFrom(net, 1, input)

TestInputs(n) == {[k \in 1..n |-> 1], [k \in 1..n |-> IF k = 1 THEN 3 ELSE 0 - k]}

\* network_save: void, nothing is written when the file cannot be opened
NetworkSave ==
    /\ sl.pc = "start"
    /\ \E net \in Networks, opened \in BOOLEAN :
          sl' = [sl EXCEPT !.pc = "saved", !.net = net, !.savedBy = "network_save",
                           !.saveRet = "void", !.exists = opened,
                           !.file = IF opened THEN SaveWords(net) ELSE <<>>]
    /\ UNCHANGED <<serverVars, rateVars, pre, ds, ct, mn, ui, nat, tr, cv, bk>>

\* model_save: 0, or -1 when the file cannot be opened
ModelSave ==
    /\ sl.pc = "start"
    /\ \E net \in Networks, opened \in BOOLEAN :
          sl' = [sl EXCEPT !.pc = "saved", !.net = net, !.savedBy = "model_save",
                           !.saveRet = IF opened THEN "0" ELSE "-1", !.exists = opened,
                           !.file = IF opened THEN SaveWords(net) ELSE <<>>]
    /\ UNCHANGED <<serverVars, rateVars, pre, ds, ct, mn, ui, nat, tr, cv, bk>>

\* network_load, model_load of that file: NULL when it cannot be opened
LoadSaved ==
    /\ sl.pc = "saved"
    /\ \E fn \in {"network_load", "model_load"}, held \in {-9, 9} :
          sl' = [sl EXCEPT !.pc = "loaded", !.loadedBy = fn,
                           !.loaded = IF sl.exists THEN LoadWords(sl.file, held)
                                      ELSE NullNetwork]
    /\ UNCHANGED <<serverVars, rateVars, pre, ds, ct, mn, ui, nat, tr, cv, bk>>

\* the same input through the network that was saved and the one that was loaded
PredictBoth ==
    /\ sl.pc = "loaded"
    /\ ~sl.loaded.null
    /\ \E input \in TestInputs(sl.net.layer_sizes[1]) :
          sl' = [sl EXCEPT !.pc = "predicted", !.input = input,
                           !.outNet = NetworkForward(sl.net, input),
                           !.outLoaded = NetworkForward(sl.loaded, input)]
    /\ UNCHANGED <<serverVars, rateVars, pre, ds, ct, mn, ui, nat, tr, cv, bk>>

NextFile ==
    \/ NetworkSave
    \/ ModelSave
    \/ LoadSaved
    \/ PredictBoth

SpecFile == InitWrapper /\ [][NextFile]_vars

\* ------------------------------------------------------- dataset_shuffle
MaxSamples == 3

\* a sample is an input row and its target row; equal rows may repeat
InputRows == {"in_a", "in_b"}
TargetRows == {"one_hot_0", "one_hot_1"}
Samples == InputRows \X TargetRows

RECURSIVE SeqsUpTo(_, _)
SeqsUpTo(S, n) ==
    IF n = 0 THEN {<<>>}
    ELSE LET shorter == SeqsUpTo(S, n - 1)
         IN shorter \cup {Append(q, x) : q \in {r \in shorter : Len(r) = n - 1}, x \in S}

Datasets == SeqsUpTo(Samples, MaxSamples)

\* temp = a[i]; a[i] = a[j]; a[j] = temp (positions counted from 1)
Swap(a, i, j) == [a EXCEPT ![i] = a[j], ![j] = a[i]]

TargetsStay(targets, i, j) == targets
SwapTargets(targets, i, j) == Swap(targets, i, j)

\* the loop starts at the last sample: i = num_samples - 1
ShuffleEnter ==
    /\ ds.pc = "start"
    /\ \E rows \in Datasets :
          ds' = [pc |-> IF Len(rows) > 1 THEN "loop" ELSE "done", rows |-> rows,
                 inputs |-> [k \in 1..Len(rows) |-> rows[k][1]],
                 targets |-> [k \in 1..Len(rows) |-> rows[k][2]],
                 i |-> Len(rows)]
    /\ UNCHANGED <<serverVars, rateVars, pre, sl, ct, mn, ui, nat, tr, cv, bk>>

\* one iteration: j = rand() % (i + 1), both pointers exchanged, i--
ShuffleStep ==
    /\ ds.pc = "loop"
    /\ \E j \in 1..ds.i :
          ds' = [ds EXCEPT !.inputs = Swap(ds.inputs, ds.i, j),
                           !.targets = SwapTargets(ds.targets, ds.i, j),
                           !.i = ds.i - 1,
                           !.pc = IF ds.i - 1 > 1 THEN "loop" ELSE "done"]
    /\ UNCHANGED <<serverVars, rateVars, pre, sl, ct, mn, ui, nat, tr, cv, bk>>

NextShuffle ==
    \/ ShuffleEnter
    \/ ShuffleStep

SpecShuffle == InitWrapper /\ [][NextShuffle]_vars

\* ------------------------------------------- network_test, confusion matrix
NumClasses == 2
MaxTest == 3

Classes == 0..(NumClasses - 1)
Cells == Classes \X Classes

\* what a supplied matrix may hold before the call
PriorMatrices ==
    {[c \in Cells |-> 4]} \cup {[c \in Cells |-> IF c = d THEN k ELSE 0] : d \in Cells, k \in {0, 4}}
\* calloc in confusion_matrix_create, memset in network_test
ZeroMatrix == [c \in Cells |-> 0]

\* prediction vectors, ties included, and one-hot target vectors
ScoreVectors == [Classes -> {0, 5}]
TargetVectors == {[c \in Classes |-> IF c = t THEN 1 ELSE 0] : t \in Classes}

RECURSIVE ArgMaxFrom(_, _, _)
\* the scan of confusion_matrix_update: a later class wins only when strictly greater
ArgMaxFrom(v, j, best) ==
    IF j > NumClasses - 1 THEN best
    ELSE ArgMaxFrom(v, j + 1, IF v[j] > v[best] THEN j ELSE best)
ArgMax(v) == ArgMaxFrom(v, 1, 0)

\* confusion_matrix_update with size 1: matrix[true_class][pred_class]++
ConfusionMatrixUpdate(matrix, predictions, targets) ==
    LET cell == <<ArgMax(targets), ArgMax(predictions)>>
    IN [matrix EXCEPT ![cell] = @ + 1]

RECURSIVE SumCells(_, _)
SumCells(matrix, cells) ==
    IF cells = {} THEN 0
    ELSE LET c == CHOOSE x \in cells : TRUE
         IN matrix[c] + SumCells(matrix, cells \ {c})

\* confusion_matrix_accuracy: (float)correct / total, 0.0f for an empty matrix;
\* the quotient is held as the fraction num/den
ConfusionMatrixAccuracy(matrix) ==
    LET correct == SumCells(matrix, {c \in Cells : c[1] = c[2]})
        total == SumCells(matrix, Cells)
    IN IF total > 0 THEN [num |-> correct, den |-> total] ELSE [num |-> 0, den |-> 1]

\* the reset before the pass
KeepsCounts(matrix) == matrix
ResetMatrix(matrix) == ZeroMatrix

\* network_test up to the loop: -1 if the predictions buffer cannot be
\* allocated, else the matrix, if one was supplied, is reset
TestEnter ==
    /\ ct.pc = "start"
    /\ \E supplied \in BOOLEAN, prior \in PriorMatrices, n \in 0..MaxTest, allocated \in BOOLEAN :
          ct' = [ct EXCEPT !.pc = IF ~allocated THEN "returned" ELSE "loop",
                           !.supplied = supplied,
                           !.prior = IF supplied THEN prior ELSE <<>>,
                           !.matrix = IF ~supplied THEN <<>>
                                      ELSE IF allocated THEN ResetMatrix(prior) ELSE prior,
                           !.n = n,
                           !.ret = IF allocated THEN "" ELSE "-1"]
    /\ UNCHANGED <<serverVars, rateVars, pre, sl, ds, mn, ui, nat, tr, cv, bk>>

\* one sample: forward pass, loss, confusion_matrix_update(cm, predictions, targets[i], 1)
TestSample ==
    /\ ct.pc = "loop"
    /\ ct.i < ct.n
    /\ \E predictions \in ScoreVectors, targets \in TargetVectors :
          ct' = [ct EXCEPT !.i = ct.i + 1,
                           !.matrix = IF ct.supplied
                                      THEN ConfusionMatrixUpdate(ct.matrix, predictions, targets)
                                      ELSE ct.matrix]
    /\ UNCHANGED <<serverVars, rateVars, pre, sl, ds, mn, ui, nat, tr, cv, bk>>

\* the loop is over: total_loss / num_samples is returned
TestReturn ==
    /\ ct.pc = "loop"
    /\ ct.i = ct.n
    /\ ct' = [ct EXCEPT !.pc = "returned", !.ret = "mean_loss"]
    /\ UNCHANGED <<serverVars, rateVars, pre, sl, ds, mn, ui, nat, tr, cv, bk>>

\* the caller asks for the accuracy of the matrix it supplied
TestAccuracy ==
    /\ ct.pc = "returned"
    /\ ct.supplied
    /\ ct' = [ct EXCEPT !.pc = "measured", !.accuracy = ConfusionMatrixAccuracy(ct.matrix)]
    /\ UNCHANGED <<serverVars, rateVars, pre, sl, ds, mn, ui, nat, tr, cv, bk>>

NextTest ==
    \/ TestEnter
    \/ TestSample
    \/ TestReturn
    \/ TestAccuracy

SpecTest == InitWrapper /\ [][NextTest]_vars

\* ------------------------------------------------------ dataset_load_mnist
MaxImages == 2
MnistMagicImages == 2051

\* the first four bytes an images file may start with: the IDX images magic,
\* the labels magic, the images magic in little-endian order, a high byte set
MagicBytes == {<<0, 0, 8, 3>>, <<0, 0, 8, 1>>, <<3, 8, 0, 0>>, <<1, 0, 8, 3>>}
\* an images file: its magic bytes and its sample count
ImagesFiles == [magic : MagicBytes, count : 0..MaxImages]

\* read_int: (b[0]<<24) | (b[1]<<16) | (b[2]<<8) | b[3]
ReadInt(b) == b[1] * 16777216 + b[2] * 65536 + b[3] * 256 + b[4]

\* the four fopen calls: -1 when any of them fails
MnistOpen ==
    /\ mn.pc = "start"
    /\ \E opened \in [1..4 -> BOOLEAN], trainImages \in ImagesFiles, testImages \in ImagesFiles :
          mn' = [mn EXCEPT !.pc = IF \A k \in 1..4 : opened[k] THEN "opened" ELSE "returned",
                           !.ret = IF \A k \in 1..4 : opened[k] THEN "" ELSE "-1",
                           !.trainImages = trainImages, !.testImages = testImages]
    /\ UNCHANGED <<serverVars, rateVars, pre, sl, ds, ct, ui, nat, tr, cv, bk>>

\* the headers are read and printed, the three datasets created: -1 when a
\* dataset cannot be created
MnistHeaders ==
    /\ mn.pc = "opened"
    /\ \E created \in BOOLEAN :
          LET num_train == mn.trainImages.count
              \* (int)(num_train * val_ratio), the caller passing a half
              val_size == num_train \div 2
          IN mn' = [mn EXCEPT !.pc = IF created THEN "created" ELSE "returned",
                              !.ret = IF created THEN "" ELSE "-1",
                              !.train_magic = ReadInt(mn.trainImages.magic),
                              !.num_train = num_train,
                              !.test_magic = ReadInt(mn.testImages.magic),
                              !.num_test = mn.testImages.count,
                              !.out = IF created
                                      THEN [made |-> TRUE, train |-> num_train - val_size,
                                            val |-> val_size, test |-> mn.testImages.count]
                                      ELSE NoDatasets]
    /\ UNCHANGED <<serverVars, rateVars, pre, sl, ds, ct, ui, nat, tr, cv, bk>>

\* the two read loops fill the datasets, the files are closed, 0 is returned
MnistRead ==
    /\ mn.pc = "created"
    /\ mn' = [mn EXCEPT !.pc = "returned", !.ret = "0"]
    /\ UNCHANGED <<serverVars, rateVars, pre, sl, ds, ct, ui, nat, tr, cv, bk>>

NextMnist ==
    \/ MnistOpen
    \/ MnistHeaders
    \/ MnistRead

SpecMnist == InitWrapper /\ [][NextMnist]_vars

\* ------------------------------------------------------ the browser client
\* Two copies of the client are in the repository: frontend/js/main.js and
\* the one that follows the build rules in Makefile.
MaxPending == 2

ClientVersions == {"frontend", "makefile"}
ClientModels == {DefaultModel, "mnist_model_300.bin", "mnist_model_best.bin"}
Digits == 0..(OutputClasses - 1)

\* what a switch request may end with: fetch rejects, a status outside
\* 200..299, or the 200 of the switch route, which always says success: true
Outcomes == {"network_error", "not_ok", "ok"}

\* initializeConfidenceBars: 0% on every bar
ZeroBars == [d \in Digits |-> 0]
\* animateConfidenceBars: one bar per probability (percent)
ShownBars(winner) == [d \in Digits |-> IF d = winner THEN 91 ELSE 1]

\* switchModel after the await: does the try block throw?
SwitchThrows(outcome) == outcome \in {"network_error", "not_ok"}

\* currentModel after the response was handled
AssignsBeforeResponse(current, model, outcome) == model
CurrentAfter(current, model, outcome) == IF SwitchThrows(outcome) THEN current ELSE model

\* the bars after the response was handled: only the Makefile copy calls
\* initializeConfidenceBars, in its success branch
BarsAfter(version, bars, outcome) ==
    IF version = "makefile" /\ ~SwitchThrows(outcome) THEN ZeroBars ELSE bars

\* constructor
ClientLoad ==
    /\ ui.pc = "start"
    /\ \E version \in ClientVersions :
          ui' = [ui EXCEPT !.pc = "ready", !.version = version, !.currentModel = DefaultModel,
                           !.selector = DefaultModel, !.bars = ZeroBars, !.good = DefaultModel]
    /\ UNCHANGED <<serverVars, rateVars, pre, sl, ds, ct, mn, nat, tr, cv, bk>>

\* the user picks another option: the change listener calls switchModel,
\* which returns at once for the current model and else posts the request
SelectModel ==
    /\ ui.pc = "ready"
    /\ \E m \in ClientModels \ {ui.selector} :
          /\ m # ui.currentModel => Len(ui.pending) < MaxPending
          /\ ui' = [ui EXCEPT !.selector = m,
                              !.pending = IF m = ui.currentModel THEN @ ELSE Append(@, m),
                              !.last = [ev |-> "select", model |-> m, outcome |-> "",
                                        before |-> ui.currentModel]]
    /\ UNCHANGED <<serverVars, rateVars, pre, sl, ds, ct, mn, nat, tr, cv, bk>>

\* a pending request ends and switchModel resumes: the try block to its end,
\* or the catch block that puts the selector back
SwitchCompletes ==
    /\ ui.pc = "ready"
    /\ \E k \in 1..Len(ui.pending), outcome \in Outcomes :
          LET model == ui.pending[k]
              current == CurrentAfter(ui.currentModel, model, outcome)
          IN ui' = [ui EXCEPT !.pending = SubSeq(@, 1, k - 1) \o SubSeq(@, k + 1, Len(@)),
                              !.currentModel = current,
                              !.selector = IF SwitchThrows(outcome) THEN current ELSE @,
                              !.bars = BarsAfter(ui.version, @, outcome),
                              !.good = IF outcome = "ok" THEN model ELSE @,
                              !.switched = TRUE,
                              !.last = [ev |-> "switch", model |-> model, outcome |-> outcome,
                                        before |-> ui.currentModel]]
    /\ UNCHANGED <<serverVars, rateVars, pre, sl, ds, ct, mn, nat, tr, cv, bk>>

\* displayResults: a prediction result is put on the bars
PredictionShown ==
    /\ ui.pc = "ready"
    /\ \E winner \in {3, 7} :
          ui' = [ui EXCEPT !.bars = ShownBars(winner), !.switched = FALSE,
                           !.last = [ev |-> "prediction", model |-> "", outcome |-> "",
                                     before |-> ui.currentModel]]
    /\ UNCHANGED <<serverVars, rateVars, pre, sl, ds, ct, mn, nat, tr, cv, bk>>

\* clearCanvas, or predict on an empty canvas
CanvasCleared ==
    /\ ui.pc = "ready"
    /\ ui' = [ui EXCEPT !.bars = ZeroBars,
                        !.last = [ev |-> "clear", model |-> "", outcome |-> "",
                                  before |-> ui.currentModel]]
    /\ UNCHANGED <<serverVars, rateVars, pre, sl, ds, ct, mn, nat, tr, cv, bk>>

NextClient ==
    \/ ClientLoad
    \/ SelectModel
    \/ SwitchCompletes
    \/ PredictionShown
    \/ CanvasCleared

SpecClient == InitWrapper /\ [][NextClient]_vars

\* ------------------------------------------- the native module used directly
\* Two copies of the module are in the repository: Init of
\* backend/native/neural_network_wrapper.c frees the network and leaves nn as
\* it is until the load assigns it, Init of the documented copy clears nn
\* after the free.
NativeVersions == {"neural_network_wrapper.c", "documented"}

InitFree(version, s) == IF version = "documented" THEN NativeCleanup(s) ELSE NativeInitFree(s)

\* network_free(nn) of a network that was freed before
FreesAgain(s) == s.nn # 0 /\ s.nn \notin s.live
\* nn->... of a network that was freed before
ReadsFreed(s) == s.nn # 0 /\ s.nn \notin s.live

\* Init(path): NULL before anything is touched when the argument cannot be
\* read, else the free, the load and the boolean nn != NULL
NativeInitCall ==
    /\ phase = "lib"
    /\ nat.pc = "run"
    /\ \E version \in NativeVersions, f \in Files, argOk \in BOOLEAN :
          IF ~argOk
          THEN /\ nat' = [nat EXCEPT !.last = [call |-> "init_no_arg", version |-> version,
                                              file |-> f, ok |-> FALSE, prev |-> nn]]
               /\ UNCHANGED <<nn, live, netFile>>
          ELSE LET freed == InitFree(version, Native)
               IN \E id \in NetIds \ freed.live :
                     LET s == NetworkLoad(freed, f, id)
                     IN /\ SetNative(s)
                        /\ nat' = [nat EXCEPT !.doubleFree = @ \/ FreesAgain(Native),
                                              !.last = [call |-> "init", version |-> version,
                                                        file |-> f, ok |-> (s.nn # 0),
                                                        prev |-> nn]]
    /\ UNCHANGED <<phase, disk, isInitialized, initOk, running, req, done, exitCode,
                   rateVars, pre, sl, ds, ct, mn, ui, tr, cv, bk>>

\* Predict(input): NULL for anything but an array of 784, else
\* network_forward(nn, input) and nn->output_data; with nn NULL the process
\* dies on the null pointer
NativePredictCall ==
    /\ phase = "lib"
    /\ nat.pc = "run"
    /\ \E input \in ImageInputs :
          LET refused == ~input.isArray \/ input.len # ImagePixels
          IN nat' = [nat EXCEPT !.pc = IF ~refused /\ nn = 0 THEN "crashed" ELSE @,
                                !.readFreed = @ \/ (~refused /\ ReadsFreed(Native)),
                                !.last = [call |-> "predict", version |-> "", file |-> LoadedFile,
                                          ok |-> ~refused /\ nn # 0, prev |-> nn]]
    /\ UNCHANGED <<nn, live, netFile>>
    /\ UNCHANGED <<phase, disk, isInitialized, initOk, running, req, done, exitCode,
                   rateVars, pre, sl, ds, ct, mn, ui, tr, cv, bk>>

\* GetModelInfo(): loaded false for nn NULL, else loaded true and nn->num_layers
NativeInfoCall ==
    /\ phase = "lib"
    /\ nat.pc = "run"
    /\ nat' = [nat EXCEPT !.readFreed = @ \/ ReadsFreed(Native),
                          !.last = [call |-> "getModelInfo", version |-> "", file |-> LoadedFile,
                                    ok |-> NativeGetModelInfo(Native).loaded, prev |-> nn]]
    /\ UNCHANGED <<nn, live, netFile>>
    /\ UNCHANGED <<phase, disk, isInitialized, initOk, running, req, done, exitCode,
                   rateVars, pre, sl, ds, ct, mn, ui, tr, cv, bk>>

\* Cleanup()
NativeCleanupCall ==
    /\ phase = "lib"
    /\ nat.pc = "run"
    /\ SetNative(NativeCleanup(Native))
    /\ nat' = [nat EXCEPT !.doubleFree = @ \/ FreesAgain(Native),
                          !.last = [call |-> "cleanup", version |-> "", file |-> "",
                                    ok |-> TRUE, prev |-> nn]]
    /\ UNCHANGED <<phase, disk, isInitialized, initOk, running, req, done, exitCode,
                   rateVars, pre, sl, ds, ct, mn, ui, tr, cv, bk>>

NextNative ==
    \/ NativeInitCall
    \/ NativePredictCall
    \/ NativeInfoCall
    \/ NativeCleanupCall

SpecNative == InitWrapper /\ [][NextNative]_vars

\* ------------------------------------------------- trainers: the epoch loop
\* Losses are counted in units of 0.0001.
NumEpochs300 == 100
Patience300 == 10
MinDelta300 == 10
NumEpochsImproved == 50
PatienceImproved == 5
MinDeltaImproved == 1
\* best_val_loss = INFINITY
Infinity == 1000000

Trainers == {"mnist_train_300", "mnist_train_improved"}
NUM_EPOCHS(t) == IF t = "mnist_train_300" THEN NumEpochs300 ELSE NumEpochsImproved
PATIENCE(t) == IF t = "mnist_train_300" THEN Patience300 ELSE PatienceImproved
MIN_DELTA(t) == IF t = "mnist_train_300" THEN MinDelta300 ELSE MinDeltaImproved

\* what network_validate may return for an epoch
ValLosses == {2300, 2295, 2250, 2249, 2100}

\* if(val_loss < best_val_loss - MIN_DELTA)
Improves(t, val_loss, best) == val_loss < best - MIN_DELTA(t)

\* patience_counter = 0, or patience_counter++
NeverReset(improved, counter) == counter + 1
CounterAfter(improved, counter) == IF improved THEN 0 ELSE counter + 1

\* model_save(network, file) of an improving epoch: the file is left as it
\* was when it cannot be opened
CheckpointAfter(improved, opened, file, epoch, val_loss) ==
    IF improved /\ opened THEN [epoch |-> epoch, loss |-> val_loss] ELSE file

TrainStart ==
    /\ tr.pc = "start"
    /\ \E t \in Trainers :
          tr' = [tr EXCEPT !.pc = "loop", !.trainer = t, !.best_val_loss = Infinity]
    /\ UNCHANGED <<serverVars, rateVars, pre, sl, ds, ct, mn, ui, nat, cv, bk>>

\* one epoch: training, validation, the early stopping check, epoch++
TrainEpoch ==
    /\ tr.pc = "loop"
    /\ \E val_loss \in ValLosses, opened \in BOOLEAN :
          LET t == tr.trainer
              epoch == tr.epoch + 1
              improved == Improves(t, val_loss, tr.best_val_loss)
              counter == CounterAfter(improved, tr.patience_counter)
              break == ~improved /\ counter >= PATIENCE(t)
          IN tr' = [tr EXCEPT
                       !.epoch = epoch,
                       !.val_loss = val_loss,
                       !.improved = improved,
                       !.best_val_loss = IF improved THEN val_loss ELSE @,
                       !.patience_counter = counter,
                       !.checkpoint = CheckpointAfter(improved, opened, @, epoch, val_loss),
                       !.saveOk = IF improved THEN opened ELSE @,
                       !.lastImproved = IF improved THEN epoch ELSE @,
                       !.lowest = IF @ = NoCheckpoint \/ val_loss < @.loss
                                  THEN [epoch |-> epoch, loss |-> val_loss] ELSE @,
                       !.stopped = IF break THEN "early"
                                   ELSE IF epoch >= NUM_EPOCHS(t) THEN "epochs" ELSE "",
                       !.pc = IF break \/ epoch >= NUM_EPOCHS(t) THEN "done" ELSE "loop"]
    /\ UNCHANGED <<serverVars, rateVars, pre, sl, ds, ct, mn, ui, nat, cv, bk>>

NextTrain ==
    \/ TrainStart
    \/ TrainEpoch

SpecTrain == InitWrapper /\ [][NextTrain]_vars

\* ------------------------------------------- the browser client's canvas
\* Drawing, the debounced real-time prediction, the predict and clear
\* buttons, in both copies of the client. Times are in milliseconds.
MaxTime == 600
MaxTimers == 3
MaxInFlight == 1

\* CONFIG.PREDICTION_DELAY, the delay while drawing
PredictionDelay == 500
\* the delay stopDrawing passes for the final prediction
StopDelay(version) == IF version = "makefile" THEN 200 ELSE 100

\* stopDrawing of frontend/js/main.js returns at once when no stroke is being
\* drawn, the Makefile copy has no such check
StopReturnsAtOnce(version, isDrawing) == version = "frontend" /\ ~isDrawing

KeepsTimer(timers, id) == timers
\* clearTimeout(id): no effect for an id that is not pending
ClearTimeout(timers, id) == {t \in timers : t.id # id}

\* scheduleRealTimePrediction(delay): clearTimeout of the handle when it is
\* set, then setTimeout and the new handle
ScheduleRealTimePrediction(c, delay) ==
    [c EXCEPT !.timers = ClearTimeout(@, c.predictionTimeout)
                             \cup {[id |-> c.nextId, due |-> c.now + delay]},
              !.predictionTimeout = c.nextId,
              !.nextId = @ + 1,
              !.events = IF c.scheduled /\ c.fired = 0 THEN @ + 1 ELSE 1,
              !.scheduled = TRUE, !.fired = 0, !.firedAt = 0,
              !.eventAt = c.now, !.eventDelay = delay]

\* predict(isRealTime): an empty canvas resets the bars and returns, else the
\* request is sent and predict waits for the response
PredictCall(c, isRealTime) ==
    IF ~c.hasContent
    THEN [c EXCEPT !.bars = ZeroBars]
    ELSE [c EXCEPT !.inflight = @ + 1]

\* clearCanvas: the white fill and initializeConfidenceBars; the Makefile copy
\* also cancels the pending timer
ClearCanvasCall(c) ==
    [c EXCEPT !.hasContent = FALSE, !.bars = ZeroBars, !.cleared = TRUE,
              !.timers = IF c.version = "makefile" THEN ClearTimeout(@, c.predictionTimeout) ELSE @,
              !.scheduled = IF c.version = "makefile" THEN @ /\ c.fired > 0 ELSE @]

\* constructor
CanvasLoad ==
    /\ cv.pc = "start"
    /\ \E version \in ClientVersions :
          cv' = [cv EXCEPT !.pc = "ready", !.version = version, !.bars = ZeroBars,
                           !.last = "load"]
    /\ UNCHANGED <<serverVars, rateVars, pre, sl, ds, ct, mn, ui, nat, tr, bk>>

\* mousedown
StartDrawing ==
    /\ cv.pc = "ready"
    /\ ~cv.isDrawing
    /\ cv' = [cv EXCEPT !.isDrawing = TRUE, !.cleared = FALSE, !.last = "startDrawing"]
    /\ UNCHANGED <<serverVars, rateVars, pre, sl, ds, ct, mn, ui, nat, tr, bk>>

\* mousemove: returns at once when no stroke is being drawn, else the segment
\* and, realTimePrediction being true, the timer
Draw ==
    /\ cv.pc = "ready"
    /\ cv.isDrawing
    /\ cv.nextId <= MaxTimers
    /\ cv' = [ScheduleRealTimePrediction(cv, PredictionDelay) EXCEPT
                 !.hasContent = TRUE, !.last = "draw"]
    /\ UNCHANGED <<serverVars, rateVars, pre, sl, ds, ct, mn, ui, nat, tr, bk>>

\* mouseup, mouseout
StopDrawing ==
    /\ cv.pc = "ready"
    /\ ~StopReturnsAtOnce(cv.version, cv.isDrawing)
    /\ cv.nextId <= MaxTimers
    /\ cv' = [ScheduleRealTimePrediction(cv, StopDelay(cv.version)) EXCEPT
                 !.isDrawing = FALSE, !.last = "stopDrawing"]
    /\ UNCHANGED <<serverVars, rateVars, pre, sl, ds, ct, mn, ui, nat, tr, bk>>

\* time passes
Tick ==
    /\ cv.pc = "ready"
    /\ cv.now + 100 <= MaxTime
    /\ cv' = [cv EXCEPT !.now = @ + 100, !.last = "tick"]
    /\ UNCHANGED <<serverVars, rateVars, pre, sl, ds, ct, mn, ui, nat, tr, bk>>

\* a timer that is due runs its callback, predict(true)
TimerFires ==
    /\ cv.pc = "ready"
    /\ \E t \in cv.timers :
          /\ t.due <= cv.now
          /\ cv.hasContent => cv.inflight < MaxInFlight
          /\ cv' = [PredictCall(cv, TRUE) EXCEPT !.timers = @ \ {t}, !.fired = @ + 1,
                                                 !.firedAt = cv.now, !.last = "timer"]
    /\ UNCHANGED <<serverVars, rateVars, pre, sl, ds, ct, mn, ui, nat, tr, bk>>

\* the predict button
PredictClicked ==
    /\ cv.pc = "ready"
    /\ cv.hasContent => cv.inflight < MaxInFlight
    /\ cv' = [PredictCall(cv, FALSE) EXCEPT !.last = "predict"]
    /\ UNCHANGED <<serverVars, rateVars, pre, sl, ds, ct, mn, ui, nat, tr, bk>>

\* the response to a prediction request arrives and predict resumes:
\* displayResults for a 2xx answer, the catch block for anything else
PredictionResponse ==
    /\ cv.pc = "ready"
    /\ cv.inflight > 0
    /\ \E ok \in BOOLEAN, winner \in {3, 7} :
          cv' = [cv EXCEPT !.inflight = @ - 1,
                           !.bars = IF ok THEN ShownBars(winner) ELSE @,
                           !.last = "response"]
    /\ UNCHANGED <<serverVars, rateVars, pre, sl, ds, ct, mn, ui, nat, tr, bk>>

\* the clear button
ClearCanvas ==
    /\ cv.pc = "ready"
    /\ cv' = [ClearCanvasCall(cv) EXCEPT !.last = "clearCanvas"]
    /\ UNCHANGED <<serverVars, rateVars, pre, sl, ds, ct, mn, ui, nat, tr, bk>>

NextCanvas ==
    \/ CanvasLoad
    \/ StartDrawing
    \/ Draw
    \/ StopDrawing
    \/ Tick
    \/ TimerFires
    \/ PredictClicked
    \/ PredictionResponse
    \/ ClearCanvas

SpecCanvas == InitWrapper /\ [][NextCanvas]_vars

\* ------------------------------------------------ training on one sample
\* network_train: network_forward, then network_backward from the last layer
\* to the first. Values are whole numbers; the softmax outputs are held
\* rounded to 0 or 1.
TrainSizes == {<<2, 2, 2>>, <<2, 3, 2>>, <<1, 2, 3, 2>>}
TrainNetworks == {SeedNetwork(sizes, 1, seed) : sizes \in TrainSizes, seed \in 0..MaxSeed}
TrainInputs(n) == {[k \in 1..n |-> 1], [k \in 1..n |-> IF k = 1 THEN 2 ELSE 0]}
OneHot(n) == {[k \in 1..n |-> IF k = hot THEN 1 ELSE 0] : hot \in 1..n}

\* the sums bias + inputs . weights of one layer's neurons
LayerSums(layer, inputs) ==
    [j \in 1..Len(layer) |-> layer[j].bias + Dot(inputs, layer[j].weights)]

\* layer_forward: ReLU of the sums, or the softmax of the sums: 1 for the
\* first neuron with the greatest sum
LayerOutputs(sums, softmax) ==
    IF softmax
    THEN [j \in 1..Len(sums) |->
             IF sums[j] = MaxOf(sums) /\ \A k \in 1..(j - 1) : sums[k] < sums[j] THEN 1 ELSE 0]
    ELSE [j \in 1..Len(sums) |-> Max(0, sums[j])]

RECURSIVE OutputsOf(_, _, _)
\* network_forward: the outputs of layer i, the input for i = 0
OutputsOf(net, input, i) ==
    IF i = 0 THEN input
    ELSE LayerOutputs(LayerSums(net.layers[i], OutputsOf(net, input, i - 1)),
                      i = Len(net.layers))

\* the gradient clipping of layer_backward, max_grad = 1.0f
ClipGradient(x) == Max(0 - 1, Min(1, x))

\* relu_derivative
ReluDerivative(x) == IF x > 0 THEN 1 ELSE 0

\* layer_backward, the output layer: output - target
OutputDeltas(outputs, target) == [j \in 1..Len(outputs) |-> outputs[j] - target[j]]

\* layer_backward, a hidden layer: the next layer's deltas through the next
\* layer's weights, times the ReLU derivative of the neuron's sum
HiddenDeltas(sums, next_layer, next_deltas) ==
    [j \in 1..Len(sums) |->
        Dot([n \in 1..Len(next_layer) |-> next_layer[n].weights[j]], next_deltas)
            * ReluDerivative(sums[j])]

\* layer_backward, the update: every weight and the bias of every neuron
UpdateWeights(layer, deltas, inputs, learning_rate) ==
    [j \in 1..Len(layer) |->
        [weights |-> [k \in 1..Len(inputs) |->
                         layer[j].weights[k]
                             - learning_rate * ClipGradient(ClipGradient(deltas[j]) * inputs[k])],
         bias |-> layer[j].bias - learning_rate * ClipGradient(deltas[j])]]

\* network_train begins: network_forward of the sample
TrainForward ==
    /\ bk.pc = "start"
    /\ \E net \in TrainNetworks :
       \E input \in TrainInputs(net.layer_sizes[1]),
          target \in OneHot(net.layer_sizes[Len(net.layer_sizes)]) :
          bk' = [bk EXCEPT !.pc = "backward", !.net = net, !.forward = net.layers,
                           !.input = input, !.target = target,
                           !.sums = [i \in 1..Len(net.layers) |->
                                        LayerSums(net.layers[i], OutputsOf(net, input, i - 1))],
                           !.outputs = [i \in 1..Len(net.layers) |-> OutputsOf(net, input, i)],
                           !.deltas = [i \in 1..Len(net.layers) |-> <<>>],
                           !.i = Len(net.layers)]
    /\ UNCHANGED <<serverVars, rateVars, pre, sl, ds, ct, mn, ui, nat, tr, cv>>

\* one turn of network_backward's loop: layer_backward of layer i, its deltas
\* and then its update
BackwardLayer ==
    /\ bk.pc = "backward"
    /\ LET i == bk.i
           last == Len(bk.net.layers)
           layer_input == IF i = 1 THEN bk.input ELSE bk.outputs[i - 1]
           deltas == IF i = last
                     THEN OutputDeltas(bk.outputs[i], bk.target)
                     ELSE HiddenDeltas(bk.sums[i], bk.net.layers[i + 1], bk.deltas[i + 1])
       IN bk' = [bk EXCEPT !.deltas[i] = deltas,
                           !.net.layers[i] = UpdateWeights(@, deltas, layer_input,
                                                           bk.net.learning_rate),
                           !.i = i - 1,
                           !.pc = IF i = 1 THEN "done" ELSE "backward"]
    /\ UNCHANGED <<serverVars, rateVars, pre, sl, ds, ct, mn, ui, nat, tr, cv>>

NextBackward ==
    \/ TrainForward
    \/ BackwardLayer

SpecBackward == InitWrapper /\ [][NextBackward]_vars

\* ================================================================ properties
\* the records to judge: every request in a slot, and the one that finished last
Records == {req[r] : r \in Slots} \cup {done}

\* the wrapper's state of record: some init() returned success, and neither a
\* cleanup() nor a failed init() came after it (initOk at the time of the call)

\* ---- C2: predict() called when no init() has succeeded since creation, the
\* last cleanup() or the last failed init() fails with NotInitialized, and the
\* native predict is not invoked.
C2_PredictRefusedUninitialized ==
    \A rec \in Records :
        (rec.kind = "call" /\ rec.nPredict > 0 /\ ~rec.okAtCall) =>
            /\ rec.pc \notin {"forward", "output"}
            /\ ~rec.reached
            /\ rec.calls = <<>>
            /\ rec.ret.tag = "throw"
            /\ rec.ret.err = "NotInitialized"

\* a well-formed image was refused, on a wrapper that a cleanup or a failed init left unloaded
C2_Witness ==
    /\ done.kind = "call"
    /\ done.nPredict = 1
    /\ done.arg = GoodImage
    /\ ~done.okAtCall
    /\ done.ret.err = "NotInitialized"
    /\ netFile # [id \in NetIds |-> "none"]

\* ---- C3 as stated: getModelInfo() called when no init() has succeeded since
\* creation, the last cleanup() or the last failed init() fails with
\* NotInitialized and returns no model-info record.
C3_InfoRefusedUninitialized ==
    \A rec \in Records :
        (rec.kind = "call" /\ rec.pc \in {"after_info", "responded"}
            /\ rec.info.tag # "none" /\ ~rec.okAtCall) =>
            /\ rec.info.tag = "throw"
            /\ rec.info.err = "NotInitialized"

\* ---- C3 amended: getModelInfo() never fails with NotInitialized; called when
\* no init() has succeeded since creation, the last cleanup() or the last
\* failed init(), it reaches the native module and returns the record
\* {loaded: false}, without a layer count.
C3_InfoReportsNotLoaded ==
    \A rec \in Records :
        (rec.kind = "call" /\ rec.pc \in {"after_info", "responded"}
            /\ rec.info.tag # "none") =>
            /\ rec.info.tag = "value"
            /\ rec.calls = <<"getModelInfo">>
            /\ ~rec.okAtCall => (~rec.info.loaded /\ rec.info.numLayers = 0)
            /\ rec.okAtCall => rec.info.loaded

C3_Witness ==
    /\ done.kind = "call"
    /\ done.info.tag = "value"
    /\ ~done.info.loaded
    /\ ~done.okAtCall
    /\ ~done.initBefore

\* ---- C6: when init() is called while a model is loaded, cleanup() has
\* released the old network and cleared the flag before the native load of the
\* new model starts; no two networks are ever held at once.
C6_CleanupBeforeLoad ==
    /\ Cardinality(live) <= 1
    /\ \A r \in Slots :
          req[r].pc = "native_load" =>
              /\ live = {}
              /\ nn = 0
              /\ ~isInitialized
              /\ req[r].initBefore => req[r].calls = <<"cleanup", "init">>

C6_Witness ==
    \E r \in Slots :
        /\ req[r].kind = "call"
        /\ req[r].pc = "native_load"
        /\ req[r].initBefore
        /\ req[r].nnBefore # 0

\* ---- C1: a switch to a modelName whose file does not exist is answered 404
\* and leaves the loaded model untouched: no native init or cleanup is called,
\* the network loaded before the request is the one loaded after it, and the
\* wrapper's initialized flag is unchanged.
C1_Switch404LeavesModel ==
    (done.kind = "switch" /\ done.modelName.tag = "string"
        /\ done.modelName.val # "" /\ disk[done.modelName.val] = "absent") =>
        /\ done.status = 404
        /\ done.calls = <<>>
        /\ done.nnAfter = done.nnBefore
        /\ done.initAfter = done.initBefore
        /\ nn = done.nnBefore
        /\ isInitialized = done.initBefore
        /\ done.nnBefore # 0 => (nn \in live /\ netFile[nn] \in Files)

C1_Witness ==
    /\ done.kind = "switch"
    /\ done.modelName = [tag |-> "string", val |-> "missing.bin"]
    /\ done.status = 404
    /\ done.initBefore
    /\ LoadedFile = "mnist_model_300.bin"

\* ---- C4: native calls never overlap, and every prediction is computed on
\* one network, the one loaded when its native predict call executes: the
\* network read for the output is the live network the forward pass ran on,
\* never a freed or half-installed one.
InNative == {"native_load", "forward", "output"}

C4_NativeCallsSerialized ==
    /\ Cardinality({r \in Slots : req[r].pc \in InNative}) <= 1
    /\ \A r \in Slots : req[r].pc \in InNative => running = r
    /\ \A r \in Slots : req[r].pc = "output" =>
          (req[r].fwdNet = nn /\ req[r].fwdLive /\ nn \in live
              /\ netFile[nn] = req[r].fwdFile)
    /\ \A rec \in Records :
          (rec.pc \in {"after_predict", "responded"} /\ rec.reached) =>
              /\ rec.fwdNet # 0
              /\ rec.fwdLive
              /\ rec.outLive
              /\ rec.outNet = rec.fwdNet
              /\ rec.outFile = rec.fwdFile
              /\ rec.fwdFile \in Files

\* a prediction inside its native call on a model that a switch installed,
\* while another request waits for the loop
C4_Witness ==
    \E r, q \in Slots :
        /\ r # q
        /\ req[r].kind = "predict"
        /\ req[r].pc = "output"
        /\ req[r].fwdFile = "mnist_model_300.bin"
        /\ req[q].pc = "queued"

\* ---- C5 as stated: the switch answers 400 iff modelName is absent, 404 iff
\* it is present but names no existing file, 200 with the new layer count iff
\* the native init succeeds and getModelInfo reports loaded, 500 otherwise;
\* exactly one response per request.
C5_SwitchStatusAsStated ==
    done.kind = "switch" =>
        LET m == done.modelName
            present == m.tag # "absent"
            exists == m.tag = "string" /\ m.val \in Files /\ disk[m.val] # "absent"
        IN /\ done.sent = 1
           /\ done.status \in {400, 404, 200, 500}
           /\ done.status = 400 <=> ~present
           /\ done.status = 404 <=> (present /\ ~exists)
           /\ done.status = 200 <=> (done.ret.ok /\ done.info.loaded)

\* ---- C5 amended: the switch answers 400 iff modelName is absent or falsy
\* (the empty string), 404 iff it is a non-empty string naming no existing
\* file, 200 with the newly loaded model's layer count iff the native init
\* succeeds and getModelInfo reports loaded, and 500 in every other case,
\* among them a modelName that is not a string; exactly one response per request.
C5_SwitchStatus ==
    done.kind = "switch" =>
        LET m == done.modelName
            falsy == m.tag = "absent" \/ m.val = ""
            isName == m.tag = "string" /\ m.val # ""
            exists == isName /\ m.val \in Files /\ disk[m.val] # "absent"
        IN /\ done.sent = 1
           /\ done.status \in {400, 404, 200, 500}
           /\ done.status = 400 <=> falsy
           /\ done.status = 404 <=> (isName /\ ~exists)
           /\ done.status = 200 <=> (done.ret.ok /\ done.info.loaded)
           /\ done.status = 200 =>
                 (exists /\ LoadedFile = m.val /\ done.numLayers = FileLayers(m.val)
                     /\ done.calls = (IF done.initBefore THEN <<"cleanup">> ELSE <<>>)
                                        \o <<"init", "getModelInfo">>)
           /\ (~falsy /\ ~isName) => (done.status = 500 /\ done.calls = <<>>)
           /\ (exists /\ disk[m.val] = "bad") => (done.status = 500 /\ ~done.initAfter)

C5_Witness ==
    /\ done.kind = "switch"
    /\ done.modelName = [tag |-> "string", val |-> "mnist_model_300.bin"]
    /\ done.status = 200
    /\ done.numLayers = 4
    /\ done.sent = 1

\* ---- C7: health is 'healthy' iff the server check passes, model-info
\* reports loaded and the trial prediction returns exactly 10 values, and
\* 'degraded' otherwise; the status code is 200 exactly when healthy and 503
\* exactly when degraded, whatever the state of the model.
C7_HealthStatus ==
    done.kind = "health" =>
        LET loaded == done.info.tag = "value" /\ done.info.loaded
            working == done.nPredict = 1 /\ done.ret.tag = "value"
                          /\ done.ret.len = OutputClasses
        IN /\ done.health \in {"healthy", "degraded"}
           /\ done.health = "healthy" <=> (loaded /\ working)
           /\ done.status = 200 <=> done.health = "healthy"
           /\ done.status = 503 <=> done.health = "degraded"
           /\ done.sent = 1
           /\ loaded <=> done.nnBefore # 0
           /\ ~loaded => (done.nPredict = 0 /\ done.predStatus = "skipped")

\* degraded after a failed switch unloaded the model
C7_Witness ==
    /\ done.kind = "health"
    /\ done.health = "degraded"
    /\ done.status = 503
    /\ done.modelStatus = "not_loaded"
    /\ nn = 0
    /\ netFile # [id \in NetIds |-> "none"]

\* ---- C8: predict answers 400 iff validation or preprocessing fails, 500 iff
\* both succeed but predict() throws (NotInitialized included) or returns
\* something other than an array of 10, and 200 otherwise; input that failed
\* validation never reaches the native predict.
C8_PredictStatus ==
    done.kind = "predict" =>
        LET p == done.pixels
            valid == p.isArray /\ p.len = ImagePixels /\ p.badAt = 0
            preprocessed == done.options # "null"
            good == done.ret.tag = "value" /\ done.ret.len = OutputClasses
        IN /\ done.sent = 1
           /\ done.status \in {400, 500, 200}
           /\ done.status = 400 <=> (~valid \/ ~preprocessed)
           /\ done.status = 500 <=> (valid /\ preprocessed /\ ~good)
           /\ done.status = 200 <=> (valid /\ preprocessed /\ good)
           /\ ~valid => (~done.reached /\ done.nPredict = 0 /\ done.calls = <<>>)
           /\ (valid /\ preprocessed /\ ~done.initBefore) =>
                 (done.ret.err = "NotInitialized" /\ done.status = 500)

\* 500 with NotInitialized, and 500 for a native result that is no array, both occur
C8_Witness ==
    /\ done.kind = "predict"
    /\ done.status = 500
    /\ done.pixels = GoodImage
    /\ done.ret.tag = "undefined"
    /\ done.reached

\* ---- C9: a batch of n images, 1 <= n <= 10, is answered 200 with exactly n
\* results; the i-th carries index i and reflects image i's own validation and
\* prediction outcome, whatever happened to the other images; and
\* successful + failed = total = n.
C9_BatchIsolatesItems ==
    (done.kind = "batch" /\ done.imagesIsArray
        /\ Len(done.images) >= 1 /\ Len(done.images) <= MaxBatchSize) =>
        LET n == Len(done.images)
            res == done.results
            valid(k) == LET p == done.images[k]
                        IN p.isArray /\ p.len = ImagePixels /\ p.badAt = 0
            \* the native predict calls made up to image k
            nth(k) == Cardinality({j \in 1..k : valid(j)})
            predicts(k) == /\ valid(k)
                           /\ done.options # "null"
                           /\ done.initBefore
                           /\ done.failAt # nth(k)
        IN /\ done.status = 200
           /\ done.sent = 1
           /\ Len(res) = n
           /\ \A k \in 1..n :
                 /\ res[k].index = k - 1
                 /\ res[k].error = "Invalid input" <=> ~valid(k)
                 /\ res[k].error = "" <=> predicts(k)
                 /\ res[k].error \in {"", "Invalid input", "Prediction failed"}
                 /\ res[k].error = "" => res[k].file = LoadedFile
           /\ done.total = n
           /\ done.successful = Cardinality({k \in 1..n : res[k].error = ""})
           /\ done.successful + done.failed = done.total

\* an invalid image between two that were predicted
C9_Witness ==
    /\ done.kind = "batch"
    /\ done.status = 200
    /\ Len(done.results) = 3
    /\ done.results[1].error = ""
    /\ done.results[2].error = "Invalid input"
    /\ done.results[3].error = ""
    /\ done.successful = 2
    /\ done.failed = 1

\* ---- C10 as stated: once a client has issued more than 60 requests to the
\* prediction routes within one 1-minute window, every request after the 60th
\* in that window is answered 429 and does not reach the prediction handler.
C10_After60thRejected ==
    (rlLast.route \in PredictionRoutes /\ rlLast.nth > PredictionMax) =>
        (rlLast.status = 429 /\ ~rlLast.handled)

\* ---- C10 amended: once a client has issued more than 60 requests to the
\* prediction routes within one 1-minute window, at least one of them has been
\* answered 429 without reaching the prediction handler: every request the
\* prediction limiter counts beyond its 60th of the window is rejected, and so
\* is every request the general limiter rejects before it (those are not
\* counted by the prediction limiter); at most 60 reach the handler.
C10_PredictionRateLimited ==
    /\ pIssued > PredictionMax => pRejected >= 1
    /\ pIssued - pRejected <= PredictionMax
    /\ rlLast.route \in PredictionRoutes =>
          /\ rlLast.counted > PredictionMax => (rlLast.status = 429 /\ ~rlLast.handled)
          /\ rlLast.handled <=> rlLast.status # 429
          /\ rlLast.handled => (rlLast.counted >= 1 /\ rlLast.counted <= PredictionMax)
          /\ (rlLast.counted = 0) => (rlLast.status = 429 /\ gHits > GeneralMax)

\* the 61st request of the window, on the legacy route, rejected by the prediction limiter
C10_Witness ==
    /\ rlLast.route = "/predict"
    /\ rlLast.nth = PredictionMax + 1
    /\ rlLast.counted = PredictionMax + 1
    /\ rlLast.status = 429
    /\ ~rlLast.handled
    /\ gHits <= GeneralMax

\* ---- C11: when loading the default model at startup fails, the process
\* exits with a failure code before any route is mounted or the server
\* listens; the server never accepts a request without having loaded the
\* default model first.
C11_StartupLoadIsFatal ==
    /\ disk[DefaultModel] # "good" =>
          /\ phase \in {"boot", "exited"}
          /\ phase = "exited" => exitCode = 1
          /\ \A r \in Slots : req[r].pc # "queued" /\ req[r].kind \in {"none", "startup"}
          /\ done.kind \in {"none", "startup"}
          /\ live = {}
    /\ exitCode = 1 => (phase = "exited" /\ done.kind = "startup" /\ ~done.ret.ok)
    /\ phase = "serving" => disk[DefaultModel] = "good"
    /\ \A rec \in Records :
          rec.kind \notin {"none", "startup"} => disk[DefaultModel] = "good"

\* the default model could not be loaded and the process is gone
C11_Witness ==
    /\ phase = "exited"
    /\ exitCode = 1
    /\ done.kind = "startup"
    /\ done.calls = <<"init">>
    /\ ~done.ret.ok

\* ---- C12: SIGTERM and SIGINT run the same sequence in the same order: log
\* intent, release the native network through cleanup(), exit with code 0,
\* whatever the state of the model; the network is released before the
\* process exits and requests in flight are not waited for.
C12_GracefulShutdown ==
    /\ \A r \in Slots :
          req[r].kind = "signal" =>
              /\ req[r].pc \in {"cleanup", "after_cleanup"}
              /\ req[r].pc = "cleanup" => req[r].calls = <<"log">>
              /\ req[r].pc = "after_cleanup" =>
                    /\ nn = 0 /\ live = {} /\ ~isInitialized
                    /\ req[r].calls = <<"log">> \o
                          (IF req[r].initBefore THEN <<"cleanup">> ELSE <<>>)
              /\ exitCode = -1
    /\ done.kind = "signal" =>
          /\ phase = "exited"
          /\ exitCode = 0
          /\ nn = 0 /\ live = {} /\ ~isInitialized
          /\ done.calls = <<"log">> \o (IF done.initBefore THEN <<"cleanup">> ELSE <<>>)
    /\ exitCode = 0 => (done.kind = "signal" /\ live = {})

\* SIGINT with a model loaded, while a request waits for the loop
C12_Witness ==
    /\ done.kind = "signal"
    /\ done.sig = "SIGINT"
    /\ done.initBefore
    /\ done.calls = <<"log", "cleanup">>
    /\ exitCode = 0
    /\ \E q \in Slots : req[q].pc = "queued"

\* ---- C13: on both prediction routes, for any options record, the pipeline
\* runs normalize iff options.normalize is not false, then threshold with
\* options.threshold (0.1 when omitted) iff options.applyThreshold is not
\* false, then center iff options.center is not false, in that order, so the
\* same options give the same pixels on both routes.
C13_OptionsDecidePipeline ==
    pre.route # "none" =>
        LET o == pre.options
            t == IF o.threshold = Undefined THEN DefaultThreshold ELSE o.threshold.v
            claimed == (IF o.normalize # JsBool(FALSE) THEN <<Stage("normalize", 0)>> ELSE <<>>)
                       \o (IF o.applyThreshold # JsBool(FALSE)
                           THEN <<Stage("threshold", t)>> ELSE <<>>)
                       \o (IF o.center # JsBool(FALSE) THEN <<Stage("center", 0)>> ELSE <<>>)
        IN /\ pre.stages = claimed
           /\ pre.out = RunStages(pre.image, claimed)

\* ---- C14: a network saved (network_save or model_save) and loaded again
\* (network_load or model_load) has the same layer count, layer sizes and
\* learning rate and every weight and bias in the same position, and so gives
\* the same prediction for any fixed input.
C14_SaveLoadRoundTrip ==
    (sl.pc \in {"loaded", "predicted"} /\ sl.exists) =>
        /\ ~sl.loaded.null
        /\ Len(sl.loaded.layer_sizes) = Len(sl.net.layer_sizes)
        /\ sl.loaded.layer_sizes = sl.net.layer_sizes
        /\ sl.loaded.learning_rate = sl.net.learning_rate
        /\ Len(sl.loaded.layers) = Len(sl.net.layers)
        /\ \A i \in 1..Len(sl.net.layers) :
              /\ Len(sl.loaded.layers[i]) = Len(sl.net.layers[i])
              /\ \A j \in 1..Len(sl.net.layers[i]) :
                    /\ sl.loaded.layers[i][j].weights = sl.net.layers[i][j].weights
                    /\ sl.loaded.layers[i][j].bias = sl.net.layers[i][j].bias
        /\ sl.pc = "predicted" => sl.outLoaded = sl.outNet

\* three layers of weights, saved by one module and loaded by the other
C14_Witness ==
    /\ sl.pc = "predicted"
    /\ sl.savedBy = "model_save"
    /\ sl.loadedBy = "network_load"
    /\ sl.net.layer_sizes = <<1, 2, 3, 2>>
    /\ sl.outLoaded = sl.outNet
    /\ \E k \in 1..2 : sl.outNet[k] # 0

\* ---- C15: dataset_shuffle leaves the multiset of (input, target) pairs
\* unchanged: every pair of the dataset before the shuffle is in it after the
\* shuffle as often as before, an input still with its own target.
C15_ShufflePreservesPairs ==
    ds.pc \in {"loop", "done"} =>
        /\ Len(ds.inputs) = Len(ds.rows)
        /\ Len(ds.targets) = Len(ds.rows)
        /\ \A p \in Samples :
              Cardinality({k \in 1..Len(ds.rows) : <<ds.inputs[k], ds.targets[k]>> = p})
                  = Cardinality({k \in 1..Len(ds.rows) : ds.rows[k] = p})

\* a finished shuffle that moved samples, of a dataset holding one pair twice
C15_Witness ==
    /\ ds.pc = "done"
    /\ ds.i = 1
    /\ Len(ds.rows) = MaxSamples
    /\ ds.rows[1] = ds.rows[2]
    /\ ds.rows[3] # ds.rows[1]
    /\ ds.inputs[1] = ds.rows[3][1]
    /\ ds.targets[1] = ds.rows[3][2]

\* ---- C16: after a network_test pass over N samples with a supplied confusion
\* matrix, whatever the matrix held before, the cells of the matrix sum to N,
\* and confusion_matrix_accuracy returns the diagonal sum over that total
\* (0 for the empty pass, where there is nothing to divide by).
C16_MatrixCountsThePass ==
    /\ (ct.pc = "loop" /\ ct.supplied) => SumCells(ct.matrix, Cells) = ct.i
    /\ (ct.pc \in {"returned", "measured"} /\ ct.supplied /\ ct.ret = "mean_loss") =>
          SumCells(ct.matrix, Cells) = ct.n
    /\ (ct.pc = "measured" /\ ct.ret = "mean_loss") =>
          IF ct.n > 0
          THEN ct.accuracy = [num |-> SumCells(ct.matrix, {c \in Cells : c[1] = c[2]}),
                              den |-> ct.n]
          ELSE ct.accuracy = [num |-> 0, den |-> 1]

\* a pass over three samples, one of them misclassified, into a matrix that
\* held counts before
C16_Witness ==
    /\ ct.pc = "measured"
    /\ ct.ret = "mean_loss"
    /\ ct.n = MaxTest
    /\ \A c \in Cells : ct.prior[c] = 4
    /\ ct.accuracy = [num |-> MaxTest - 1, den |-> MaxTest]

\* ---- C17: dataset_load_mnist returns -1 and produces no datasets for any
\* images file whose first 32-bit big-endian integer is not 0x803.
C17_WrongMagicRejected ==
    (/\ mn.pc = "returned"
     /\ \/ ReadInt(mn.trainImages.magic) # MnistMagicImages
        \/ ReadInt(mn.testImages.magic) # MnistMagicImages)
    => (mn.ret = "-1" /\ ~mn.out.made)

\* ---- C18: in the browser client, after a model-switch attempt that fails
\* (network error or non-success status) the selector shows the last model
\* whose switch succeeded, or the default model if none has, and currentModel
\* is what it was before the attempt ended.
C18_FailedSwitchReverts ==
    (ui.last.ev = "switch" /\ ui.last.outcome \in {"network_error", "not_ok"}) =>
        /\ ui.selector = ui.good
        /\ ui.currentModel = ui.good
        /\ ui.currentModel = ui.last.before

\* a switch has succeeded, the user picked a third model, and that attempt failed
C18_Witness ==
    /\ ui.last.ev = "switch"
    /\ ui.last.outcome = "not_ok"
    /\ ui.good # DefaultModel
    /\ ui.last.model \notin {ui.good, DefaultModel}
    /\ ui.selector = ui.good
    /\ ui.version = "frontend"

\* ---- C19: in the browser client a model switch clears the confidence bars:
\* once a switch request has completed, all ten indicators show zero until
\* the next prediction result is displayed.
C19_SwitchClearsBars ==
    ui.switched => \A d \in Digits : ui.bars[d] = 0

C21_NoUseAfterFree ==
    /\ ~nat.doubleFree
    /\ ~nat.readFreed
    /\ nn # 0 => nn \in live
    /\ (nat.last.call = "init" /\ ~nat.last.ok) =>
          (nn = 0 /\ (nat.last.prev # 0 => nat.last.prev \notin live))

\* a load that failed over a loaded network: the old one is freed, nn is NULL
C21_Witness ==
    /\ nat.last.call = "init"
    /\ nat.last.version = "neural_network_wrapper.c"
    /\ ~nat.last.ok
    /\ nat.last.prev # 0
    /\ netFile[nat.last.prev] = "freed"
    /\ nn = 0

\* ---- C22: after every completed wrapper operation, in any sequence of init,
\* predict, getModelInfo and cleanup calls made through the service wrapper,
\* isInitialized is true iff the native process-wide reference is non-null;
\* so the native predict never runs with no network loaded.
C22_FlagMatchesReference ==
    /\ running = 0 => (isInitialized <=> nn # 0)
    /\ \A rec \in Records :
          (rec.kind = "call" /\ rec.reached) => (rec.fwdNet # 0 /\ rec.fwdLive)

\* the flag and the reference both cleared by an init that failed over a
\* loaded model
C22_Witness ==
    /\ running = 0
    /\ done.kind = "call"
    /\ done.calls = <<"cleanup", "init">>
    /\ done.ret.tag = "value"
    /\ ~done.ret.ok
    /\ done.nnBefore # 0
    /\ ~isInitialized
    /\ nn = 0

\* ---- C23: all images of one POST /api/predict/batch request are predicted
\* by the same loaded model: while a batch is being handled no other handler
\* runs, the loaded model is the one its earlier images were predicted by, and
\* the finished batch holds predictions of one model only, for any
\* interleaving of requests.
C23_BatchSeesOneModel ==
    /\ \A r \in Slots :
          (req[r].kind = "batch" /\ req[r].pc \notin {"idle", "queued"}) =>
              /\ \A q \in Slots \ {r} : req[q].pc \in {"idle", "queued"}
              /\ \A k \in 1..Len(req[r].results) :
                    req[r].results[k].error = "" => req[r].results[k].file = LoadedFile
    /\ \A rec \in Records :
          rec.kind = "batch" =>
              \A j, k \in 1..Len(rec.results) :
                  (rec.results[j].error = "" /\ rec.results[k].error = "") =>
                      rec.results[j].file = rec.results[k].file

\* a batch between its first and its second prediction while another request waits
C23_Witness ==
    \E r, q \in Slots :
        /\ r # q
        /\ req[r].kind = "batch"
        /\ req[r].pc = "after_predict"
        /\ req[r].i = 1
        /\ req[r].results[1].error = ""
        /\ req[r].results[1].file = "mnist_model_300.bin"
        /\ req[q].pc = "queued"

C25_CheckpointHoldsLowest ==
    /\ (tr.pc \in {"loop", "done"} /\ tr.epoch > 0 /\ tr.lowest.epoch = tr.epoch) =>
          tr.checkpoint.epoch = tr.epoch
    /\ tr.pc = "done" => tr.checkpoint.loss = tr.lowest.loss

\* ---- C26: in the browser client, once clearCanvas has run, the ten
\* confidence indicators stay at zero until the user starts a new stroke,
\* whatever response or timer of before the clear comes afterwards.
C26_BarsStayZero ==
    (cv.pc = "ready" /\ cv.cleared) => cv.bars = ZeroBars

\* ---- C27: in the browser client, whenever no model-switch request is in
\* flight the model selector shows currentModel, whatever the selector changes
\* and the order of the responses were.
C27_SelectorShowsCurrent ==
    (ui.pc = "ready" /\ ui.pending = <<>>) => ui.selector = ui.currentModel

\* ---- C28: in the browser client at most one real-time prediction timer is
\* pending; a drawn segment or a stroke end leaves exactly the timer it armed,
\* due one delay after the event; a burst of events has its one timer pending
\* or has run predict(true) once, and not before the delay of the last event
\* has passed.
C28_OneTimerPerBurst ==
    cv.pc = "ready" =>
       /\ Cardinality(cv.timers) <= 1
       /\ cv.last \in {"draw", "stopDrawing"} =>
             /\ cv.eventAt = cv.now
             /\ cv.timers = {[id |-> cv.predictionTimeout, due |-> cv.eventAt + cv.eventDelay]}
       /\ cv.scheduled => cv.fired + Cardinality(cv.timers) = 1
       /\ cv.fired <= 1
       /\ cv.fired = 1 => cv.firedAt >= cv.eventAt + cv.eventDelay

\* a burst of three events, the last a stroke end, and its one prediction
C28_Witness ==
    /\ cv.pc = "ready"
    /\ cv.last = "timer"
    /\ cv.events >= 3
    /\ cv.fired = 1
    /\ cv.inflight = 1

\* ---- C29: the currentModel of the answer of GET /api/model/models names
\* the model file that is loaded in the native bridge, the new file after a
\* successful switch included.
C29_ListNamesLoadedModel ==
    (done.kind = "models" /\ done.status = 200 /\ LoadedFile # "")
        => done.currentModel = LoadedFile

\* ---- C30: within one network_backward call the deltas of every hidden
\* layer are those computed from the next layer's weights of the forward pass,
\* as they were before this call changed them.
C30_DeltasFromForwardWeights ==
    \A i \in 1..(Len(bk.deltas) - 1) :
        bk.deltas[i] # <<>> =>
            bk.deltas[i] = HiddenDeltas(bk.sums[i], bk.forward[i + 1], bk.deltas[i + 1])

====
